---- MODULE Spec2Model ----
(***************************************************************************)
(* State-machine model of the useWebSocketServer hook                      *)
(* (src/src/hooks/useWebSocketServer.ts): the JSON-RPC call dispatcher,    *)
(* the connection manager, the notification router and the session store.  *)
(*                                                                         *)
(* Every handler of the hook runs to completion on the single JavaScript   *)
(* event loop, so each handler is one atomic action.  The continuation of  *)
(* an `await call(...)` runs in the microtask queue right after the        *)
(* handler that settled the promise, before any other event, and is        *)
(* therefore part of the settling action.                                  *)
(*                                                                         *)
(* Optional JavaScript values are sequences of length at most one:         *)
(* <<>> is undefined/null, <<v>> is the value v.                           *)
(***************************************************************************)
EXTENDS Integers, Sequences, FiniteSets, TLC

(***************************************************************************)
(* Bounds of the model.                                                    *)
(***************************************************************************)
MaxId == 2          \* correlation ids handed out by nextId
MaxSockets == 2     \* WebSocket objects constructed by connect
MaxClock == 1       \* values of Date.now() seen by sendMessage
MaxStreamMsgs == 1  \* SpecStream: messages of one session
MaxStreamText == 2  \* SpecStream: characters of one streaming text accumulator
MaxStreamItems == 1 \* SpecStream: items of one finalized assistant message
MaxItemsMsgs == 2   \* SpecItems: messages of one session
MaxItemsText == 1   \* SpecItems: characters of one streaming text accumulator
MaxItemsItems == 2  \* SpecItems: items of one finalized assistant message
MaxPermCalls == 2   \* SpecPermission: calls issued
MaxStoreMsgs == 1   \* SpecStore: messages, characters and items of one session
MaxMessagesMsgs == 3 \* SpecMessages: messages of one session
MaxMessagesText == 2 \* SpecMessages: characters of one accumulator, items of one message

(***************************************************************************)
(* Program constants.                                                      *)
(***************************************************************************)
CALL_TIMEOUT_MS == 30000
INIT_TIMEOUT_MS == 10000
CLOSE_NORMAL == 1000
CLOSE_ABNORMAL == 1006

Urls == {"ws://a", "ws://b"}
ThreadIds == {"t1", "t2"}
TurnIds == {"r1", "r2"}
Cwds == {"~/Desktop"}
PermissionMode == {"default", "acceptEdits"}
\* 1011 stands for every close code other than 1000 and 1006
CloseCodes == {CLOSE_NORMAL, CLOSE_ABNORMAL, 1011}
CloseReasons == {"", "bye"}
Contents == {"hi"}
Deltas == {<<"a">>, <<"b">>}

None == <<>>
Some(v) == <<v>>

VARIABLES
  msgIdCounter,  \* module-level counter read by nextId
  url,           \* useState url
  status,        \* useState status
  lastError,     \* useState lastError
  sessions,      \* useState sessions, with every queued updater applied
  sessionRef,    \* sessionRef.current: the sessions of the last render
  wsRef,         \* wsRef.current: index into sockets, 0 for null
  pendingRef,    \* pendingRef.current: id -> pending record
  sockets,       \* every WebSocket constructed so far: url, readyState, and
                 \* openPending (its open event is still to be dispatched)
  timers,        \* armed timers: id -> "call" or "init", by the callback armed
  settles,       \* history: id -> how often a resolve/reject of that call ran
  lastSettled,   \* history: the calls the last handler settled, id -> Settled
  allocated,     \* history: the ids returned by nextId, in order
  stream,        \* history: the window of item/progress and item/created frames
                 \* (see Window), emptied by any other handler
  now            \* Date.now()

rest == <<msgIdCounter, url, status, lastError, sessions, sessionRef, wsRef,
          pendingRef, sockets, timers, settles, allocated, now>>
vars == <<msgIdCounter, url, status, lastError, sessions, sessionRef, wsRef,
          pendingRef, sockets, timers, settles, lastSettled, allocated, stream,
          now>>

connVars == <<url, status, lastError, wsRef, sockets>>
callVars == <<msgIdCounter, pendingRef, timers, settles, allocated>>

\* history entry for one settled call: how it settled, which operation
\* awaited it and the socket its request was sent on
Settled(id, outcome, rec) ==
  [x \in {id} |-> [outcome |-> outcome, op |-> rec.op, ws |-> rec.ws]]

(***************************************************************************)
(* Small helpers.                                                          *)
(***************************************************************************)
Extend(f, k, v) == [x \in DOMAIN f \cup {k} |-> IF x = k THEN v ELSE f[x]]
Remove(f, k) == [x \in DOMAIN f \ {k} |-> f[x]]

RECURSIVE SelectSeqIdx(_, _, _)
SelectSeqIdx(s, keep, i) ==
  IF i > Len(s) THEN <<>>
  ELSE IF i \in keep THEN <<s[i]>> \o SelectSeqIdx(s, keep, i + 1)
       ELSE SelectSeqIdx(s, keep, i + 1)

NoError == [msg |-> "null", detail |-> ""]
CodeText(code) ==
  IF code = CLOSE_NORMAL THEN "1000"
  ELSE IF code = CLOSE_ABNORMAL THEN "1006" ELSE "1011"

(***************************************************************************)
(* nextId: `return msgIdCounter++` hands out the counter and leaves it     *)
(* one larger.                                                             *)
(***************************************************************************)
\* nextId without the increment
nextIdNoIncrement(counter) == [id |-> counter, counter |-> counter]

nextId(counter) == [id |-> counter, counter |-> counter + 1]

(***************************************************************************)
(* Session store: pure reducers, one per setSessions updater.              *)
(***************************************************************************)
NewSession(thread_id, created_at, cwd, permission_mode) ==
  [thread_id |-> thread_id, created_at |-> created_at, cwd |-> cwd,
   permission_mode |-> permission_mode, turns |-> <<>>,
   active_turn_id |-> None, messages |-> <<>>,
   lastBlockedContent |-> None, hasPermissionDenial |-> None,
   permissionDenials |-> None]

UserMessage(ts, content) ==
  [id |-> [kind |-> "user", turn |-> "", ts |-> ts], role |-> "user",
   content |-> content, items |-> None, streamingText |-> <<>>,
   isStreaming |-> FALSE]

StreamingMessage(turn_id, text) ==
  [id |-> [kind |-> "streaming", turn |-> turn_id, ts |-> 0],
   role |-> "assistant", content |-> "", items |-> Some(<<>>),
   streamingText |-> text, isStreaming |-> TRUE]

TurnMessage(turn_id, item) ==
  [id |-> [kind |-> "turn", turn |-> turn_id, ts |-> 0],
   role |-> "assistant", content |-> "", items |-> Some(<<item>>),
   streamingText |-> <<>>, isStreaming |-> FALSE]

TurnMsgId(turn_id) == [kind |-> "turn", turn |-> turn_id, ts |-> 0]

\* an update that keeps only the session it updates (filter for map)
updateSessionOnly(S, thread_id, updated) ==
  SelectSeqIdx([i \in DOMAIN S |-> updated[i]],
               {i \in DOMAIN S : S[i].thread_id = thread_id}, 1)

\* prev.map(s => s.thread_id === thread_id ? updater(s) : s)
\* `updated` maps the index of each session to updater(session)
updateSession(S, thread_id, updated) ==
  [i \in DOMAIN S |-> IF S[i].thread_id = thread_id THEN updated[i] ELSE S[i]]

\* sessionRef.current.find(s => s.active_turn_id === turn_id)
\* a lookup that takes the first session with any active turn
FindByAnyTurn(R, turn_id) ==
  LET hits == {i \in DOMAIN R : R[i].active_turn_id # None}
  IN IF hits = {} THEN 0 ELSE CHOOSE i \in hits : \A j \in hits : i <= j

FindByTurn(R, turn_id) ==
  LET hits == {i \in DOMAIN R : R[i].active_turn_id = Some(turn_id)}
  IN IF hits = {} THEN 0 ELSE CHOOSE i \in hits : \A j \in hits : i <= j

\* sessionRef.current.find(s => s.thread_id === thread_id)
FindByThread(R, thread_id) ==
  LET hits == {i \in DOMAIN R : R[i].thread_id = thread_id}
  IN IF hits = {} THEN 0 ELSE CHOOSE i \in hits : \A j \in hits : i <= j

TurnStarted(s, turn_id) == [s EXCEPT !.active_turn_id = Some(turn_id)]

\* an updater that appends to the last assistant message, streaming or not,
\* and marks it streaming
ProgressTextReopens(s, turn_id, text) ==
  LET msgs == s.messages
      n == Len(msgs)
  IN IF n > 0 /\ msgs[n].role = "assistant"
     THEN [s EXCEPT !.messages[n].streamingText = msgs[n].streamingText \o text,
                    !.messages[n].isStreaming = TRUE]
     ELSE [s EXCEPT !.messages = Append(msgs, StreamingMessage(turn_id, text))]

\* the updater of item/progress for a text delta
ProgressText(s, turn_id, text) ==
  LET msgs == s.messages
      n == Len(msgs)
  IN IF n > 0 /\ msgs[n].role = "assistant" /\ msgs[n].isStreaming
     THEN [s EXCEPT !.messages[n].streamingText = msgs[n].streamingText \o text]
     ELSE [s EXCEPT !.messages = Append(msgs, StreamingMessage(turn_id, text))]

\* an updater that opens a new message for every item
ItemCreatedAlwaysNew(s, turn_id, item) ==
  [s EXCEPT !.messages = Append(s.messages, TurnMessage(turn_id, item))]

\* an updater whose filter drops every message that was streamed, live or
\* finished, when a text item arrives
ItemCreatedDropsStreamed(s, turn_id, item) ==
  LET msgs == s.messages
      keep == {i \in DOMAIN msgs :
                 ~(msgs[i].id.kind = "streaming" /\ item.type = "text")}
      filteredMsgs == SelectSeqIdx(msgs, keep, 1)
      found == {i \in DOMAIN filteredMsgs :
                  filteredMsgs[i].role = "assistant"
                  /\ filteredMsgs[i].id = TurnMsgId(turn_id)}
      first == CHOOSE i \in found : \A j \in found : i <= j
      old == IF filteredMsgs[first].items = None THEN <<>>
             ELSE filteredMsgs[first].items[1]
  IN IF found = {}
     THEN [s EXCEPT !.messages = Append(filteredMsgs, TurnMessage(turn_id, item))]
     ELSE [s EXCEPT !.messages =
             [filteredMsgs EXCEPT ![first] =
                [filteredMsgs[first] EXCEPT !.items = Some(Append(old, item))]]]

\* the updater of item/created
ItemCreated(s, turn_id, item) ==
  LET msgs == s.messages
      keep == {i \in DOMAIN msgs : ~(msgs[i].isStreaming /\ item.type = "text")}
      filteredMsgs == SelectSeqIdx(msgs, keep, 1)
      found == {i \in DOMAIN filteredMsgs :
                  filteredMsgs[i].role = "assistant"
                  /\ filteredMsgs[i].id = TurnMsgId(turn_id)}
      idxs == {i \in DOMAIN filteredMsgs : filteredMsgs[i].id = TurnMsgId(turn_id)}
      idx == CHOOSE i \in idxs : \A j \in idxs : i <= j
      first == CHOOSE i \in found : \A j \in found : i <= j
      old == IF filteredMsgs[first].items = None THEN <<>>
             ELSE filteredMsgs[first].items[1]
  IN IF found = {}
     THEN [s EXCEPT !.messages = Append(filteredMsgs, TurnMessage(turn_id, item))]
     ELSE [s EXCEPT !.messages =
             [filteredMsgs EXCEPT ![idx] =
                [filteredMsgs[first] EXCEPT !.items = Some(Append(old, item))]]]

LastUserContent(msgs) ==
  LET us == {i \in DOMAIN msgs : msgs[i].role = "user"}
  IN IF us = {} THEN None
     ELSE Some(msgs[CHOOSE i \in us : \A j \in us : j <= i].content)

\* an updater that adds the new denials to the list already there
PermissionDeniedAppends(s, denials) ==
  [s EXCEPT !.hasPermissionDenial = Some(TRUE),
            !.permissionDenials =
               Some((IF s.permissionDenials = None THEN <<>>
                     ELSE s.permissionDenials[1]) \o denials)]

\* the updater of turn/permission_denied
PermissionDenied(s, denials) ==
  [s EXCEPT !.hasPermissionDenial = Some(TRUE),
            !.permissionDenials = Some(denials),
            !.lastBlockedContent =
               IF s.lastBlockedContent # None THEN s.lastBlockedContent
               ELSE LastUserContent(s.messages)]

\* an updater that only clears the active turn
TurnEndedKeepsStreaming(s) == [s EXCEPT !.active_turn_id = None]

\* an updater that finalizes the messages and leaves the turn active
TurnEndedKeepsTurn(s) ==
  [s EXCEPT !.messages = [i \in DOMAIN s.messages |->
               IF s.messages[i].isStreaming
               THEN [s.messages[i] EXCEPT
                       !.isStreaming = FALSE,
                       !.items = IF s.messages[i].items = None THEN Some(<<>>)
                                 ELSE s.messages[i].items]
               ELSE s.messages[i]]]

\* the updater of turn/completed and turn/error
TurnEnded(s) ==
  [s EXCEPT !.active_turn_id = None,
            !.messages = [i \in DOMAIN s.messages |->
               IF s.messages[i].isStreaming
               THEN [s.messages[i] EXCEPT
                       !.isStreaming = FALSE,
                       !.items = IF s.messages[i].items = None THEN Some(<<>>)
                                 ELSE s.messages[i].items]
               ELSE s.messages[i]]]

(***************************************************************************)
(* Session operations: the updaters they apply to the store.               *)
(***************************************************************************)
\* the updater of sendMessage
SendUpdate(s, ts, content) ==
  [s EXCEPT !.messages = Append(s.messages, UserMessage(ts, content)),
            !.lastBlockedContent = Some(content),
            !.hasPermissionDenial = Some(FALSE),
            !.permissionDenials = None]

\* an updater of approvePermission that also forgets the blocked content
ApproveUpdateClearsBlocked(s, permission_mode) ==
  [s EXCEPT !.permission_mode =
               IF permission_mode = None THEN "acceptEdits" ELSE permission_mode[1],
            !.hasPermissionDenial = Some(FALSE),
            !.permissionDenials = None,
            !.lastBlockedContent = None]

\* the updater of approvePermission; permission_mode is optional
ApproveUpdate(s, permission_mode) ==
  [s EXCEPT !.permission_mode =
               IF permission_mode = None THEN "acceptEdits" ELSE permission_mode[1],
            !.hasPermissionDenial = Some(FALSE),
            !.permissionDenials = None]

\* the updater of changePermissionMode
ModeUpdate(s, permission_mode) == [s EXCEPT !.permission_mode = permission_mode]

\* the updater of setLastBlocked
BlockedUpdate(s, content) == [s EXCEPT !.lastBlockedContent = Some(content)]

\* an updater of dismissPermissionDenial that clears the flag and keeps the list
DismissUpdateFlagOnly(s) == [s EXCEPT !.hasPermissionDenial = Some(FALSE)]

\* the updater of dismissPermissionDenial
DismissUpdate(s) ==
  [s EXCEPT !.hasPermissionDenial = Some(FALSE), !.permissionDenials = None]

\* prev.filter(s => s.thread_id !== thread_id)
RemoveSession(S, thread_id) ==
  SelectSeqIdx(S, {i \in DOMAIN S : S[i].thread_id # thread_id}, 1)

(***************************************************************************)
(* Pending records.  A record keeps what the resolve/reject closures of    *)
(* its call capture: the operation awaiting the call and its arguments.    *)
(* The field ws is history: the socket the request was sent on.            *)
(***************************************************************************)
PendingRecord(method, op, thread_id, cwd, permission_mode) ==
  [method |-> method, op |-> op, thread_id |-> thread_id, cwd |-> cwd,
   permission_mode |-> permission_mode, ws |-> 0]

InitRecord == PendingRecord("initialize", "connect", "", "", None)

NoResult == [thread_id |-> "", created_at |-> 0]

\* createSession that adds the session whatever the outcome of the call
createSessionThenAlways(S, rec, outcome, result) ==
  Append(S, NewSession(result.thread_id, result.created_at,
                       rec.cwd, rec.permission_mode[1]))

\* createSession after `await call(...)`: a rejection propagates, a result
\* makes the session that is appended to the store
createSessionThen(S, rec, outcome, result) ==
  IF outcome = "resolved"
  THEN Append(S, NewSession(result.thread_id, result.created_at,
                            rec.cwd, rec.permission_mode[1]))
  ELSE S

\* approvePermission that lets a rejection of the call propagate
approveThenOnSuccess(S, rec, outcome) ==
  IF outcome = "resolved"
  THEN updateSession(S, rec.thread_id,
         [i \in DOMAIN S |-> ApproveUpdate(S[i], rec.permission_mode)])
  ELSE S

\* approvePermission after try { await call(...) } catch {}
approveThen(S, rec, outcome) ==
  updateSession(S, rec.thread_id,
    [i \in DOMAIN S |-> ApproveUpdate(S[i], rec.permission_mode)])

\* changePermissionMode after try { await call(...) } catch {}
changeModeThen(S, rec, outcome) ==
  updateSession(S, rec.thread_id,
    [i \in DOMAIN S |-> ModeUpdate(S[i], rec.permission_mode[1])])

\* sendMessage that takes its optimistic update back when the call rejects
sendMessageThenRollsBack(S, rec, outcome) ==
  IF outcome = "resolved" THEN S
  ELSE updateSession(S, rec.thread_id,
         [i \in DOMAIN S |->
            [S[i] EXCEPT !.messages =
               IF @ = <<>> THEN @ ELSE SubSeq(@, 1, Len(@) - 1)]])

\* sendMessage after `await call(...)`: the result is returned, a rejection
\* propagates; the store is not touched
sendMessageThen(S, rec, outcome) == S

\* interruptTurn that ends the turn locally once the call has resolved
interruptTurnThenEndsTurn(S, rec, outcome) ==
  IF outcome = "resolved"
  THEN updateSession(S, rec.thread_id, [i \in DOMAIN S |-> TurnEnded(S[i])])
  ELSE S

\* interruptTurn after `await call(...)`: nothing
interruptTurnThen(S, rec, outcome) == S

\* What the code after `await call(...)` does to the store once the call
\* has settled with `outcome` ("resolved", or a rejection).
AfterSettle(S, rec, outcome, result) ==
  CASE rec.op = "createSession" -> createSessionThen(S, rec, outcome, result)
    [] rec.op = "sendMessage" -> sendMessageThen(S, rec, outcome)
    [] rec.op = "interruptTurn" -> interruptTurnThen(S, rec, outcome)
    [] rec.op = "approvePermission" -> approveThen(S, rec, outcome)
    [] rec.op = "changePermissionMode" -> changeModeThen(S, rec, outcome)
    [] rec.op = "deleteSession" -> RemoveSession(S, rec.thread_id)
    [] OTHER -> S

\* The continuations of several calls rejected together run in the order
\* the calls were rejected: Map iteration order, which is ascending id.
RECURSIVE AfterRejectAll(_, _, _)
AfterRejectAll(S, pending, ids) ==
  IF ids = {} THEN S
  ELSE LET id == CHOOSE i \in ids : \A j \in ids : i <= j
       IN AfterRejectAll(AfterSettle(S, pending[id], "closed", NoResult),
                         pending, ids \ {id})

\* rejectAllPending without pending.clear()
rejectAllPendingNoClear(pending) ==
  [rejected |-> DOMAIN pending, pending |-> pending]

\* rejectAllPending: every record is rejected, then the table is cleared.
rejectAllPending(pending) ==
  [rejected |-> DOMAIN pending, pending |-> <<>>]

\* a delete that leaves the record in the table
pendingDeleteKeeps(pending, id) == pending

\* a removal that empties the whole table
pendingDeleteAll(pending, id) == <<>>

\* pendingRef.current.delete(id)
pendingDelete(pending, id) == Remove(pending, id)

\* clearTimeout(timer) of the timer armed for id
clearTimeout(armed, id) == Remove(armed, id)

\* handlers that never take a transport for superseded
staleNever(ws) == FALSE

\* the guard of ws.onopen and ws.onmessage: wsRef.current !== ws
stale(ws) == wsRef # ws

\* rawSend without the readyState test
rawSendAnyState ==
  wsRef # 0

\* rawSend returns true iff the current socket exists and is OPEN.
rawSend ==
  wsRef # 0 /\ sockets[wsRef].readyState = "OPEN"

BoundedMessages(S, maxMsgs, maxText, maxItems) ==
  \A i \in DOMAIN S :
    /\ Len(S[i].messages) <= maxMsgs
    /\ \A k \in DOMAIN S[i].messages :
         /\ Len(S[i].messages[k].streamingText) <= maxText
         /\ S[i].messages[k].items # None
              => Len(S[i].messages[k].items[1]) <= maxItems

\* a setTimeout whose callback never runs
setTimeoutNever(armed, id, kind) == armed

\* setTimeout(callback, CALL_TIMEOUT_MS | INIT_TIMEOUT_MS): arms the timer of id
setTimeout(armed, id, kind) == Extend(armed, id, kind)

(***************************************************************************)
(* call(method, params), with the synchronous part of the calling          *)
(* operation already applied to the store (S0).                            *)
(***************************************************************************)
call(rec, S0) ==
  LET n == nextId(msgIdCounter)
      id == n.id
  IN /\ Len(allocated) < MaxId
     /\ msgIdCounter' = n.counter
     /\ allocated' = Append(allocated, id)
     /\ stream' = <<>>
     /\ IF rawSend
        THEN /\ pendingRef' = Extend(pendingRef, id, [rec EXCEPT !.ws = wsRef])
             /\ timers' = setTimeout(timers, id, "call")
             /\ settles' = Extend(settles, id, 0)
             /\ lastSettled' = <<>>
             /\ sessions' = S0
        ELSE /\ pendingRef' = pendingRef
             /\ timers' = timers
             /\ settles' = Extend(settles, id, 1)
             /\ lastSettled' = Settled(id, "notsent", rec)
             /\ sessions' = AfterSettle(S0, rec, "notsent", NoResult)

(***************************************************************************)
(* Initial state: the hook right after its first render.                   *)
(***************************************************************************)
Init ==
  /\ msgIdCounter = 1
  /\ url = "ws://localhost:3284"
  /\ status = "disconnected"
  /\ lastError = NoError
  /\ sessions = <<>>
  /\ sessionRef = <<>>
  /\ wsRef = 0
  /\ pendingRef = <<>>
  /\ sockets = <<>>
  /\ timers = <<>>
  /\ settles = <<>>
  /\ lastSettled = <<>>
  /\ allocated = <<>>
  /\ stream = <<>>
  /\ now = 0

(***************************************************************************)
(* A render of the component: sessionRef.current = sessions.               *)
(***************************************************************************)
Render ==
  /\ sessionRef # sessions
  /\ sessionRef' = sessions
  /\ UNCHANGED <<sessions, lastSettled, stream, now>>
  /\ UNCHANGED connVars
  /\ UNCHANGED callVars

(***************************************************************************)
(* Connection manager.                                                     *)
(***************************************************************************)
\* WebSocket.close(): a socket that is CONNECTING or OPEN becomes CLOSING.
CloseSocket(socks, w) ==
  IF w # 0 /\ socks[w].readyState \in {"CONNECTING", "OPEN"}
  THEN [socks EXCEPT ![w].readyState = "CLOSING"]
  ELSE socks

\* a test that takes any live transport for a connection to serverUrl
alreadyConnectedAnyUrl(socks, existing, serverUrl) ==
  /\ existing # 0
  /\ socks[existing].readyState \in {"CONNECTING", "OPEN"}

\* connect: the test for its early return
alreadyConnected(socks, existing, serverUrl) ==
  /\ existing # 0
  /\ socks[existing].url = serverUrl
  /\ socks[existing].readyState \in {"CONNECTING", "OPEN"}

connect(serverUrl) ==
  LET existing == wsRef
  IN IF alreadyConnected(sockets, existing, serverUrl)
     THEN lastSettled' = <<>> /\ stream' = <<>> /\ UNCHANGED rest
     ELSE /\ Len(sockets) < MaxSockets
          /\ sockets' = Append(CloseSocket(sockets, existing),
                               [url |-> serverUrl, readyState |-> "CONNECTING",
                                openPending |-> TRUE])
          /\ wsRef' = Len(sockets) + 1
          /\ status' = "connecting"
          /\ lastError' = NoError
          /\ url' = serverUrl
          /\ lastSettled' = <<>>
          /\ stream' = <<>>
          /\ UNCHANGED <<sessions, sessionRef, now>>
          /\ UNCHANGED callVars

disconnect ==
  /\ sockets' = CloseSocket(sockets, wsRef)
  /\ sessions' = <<>>
  /\ lastSettled' = <<>>
  /\ stream' = <<>>
  /\ UNCHANGED <<url, status, lastError, wsRef, sessionRef, now>>
  /\ UNCHANGED callVars

\* ws.onopen.  The platform sets readyState to OPEN before dispatching.
onopen(ws) ==
  /\ sockets[ws].openPending
  /\ sockets[ws].readyState \in {"CONNECTING", "CLOSING"}
  /\ sockets' = [sockets EXCEPT ![ws].openPending = FALSE,
                                ![ws].readyState = "OPEN"]
  /\ IF stale(ws)
     THEN UNCHANGED callVars
     ELSE LET n == nextId(msgIdCounter)
              id == n.id
          IN /\ Len(allocated) < MaxId
             /\ msgIdCounter' = n.counter
             /\ allocated' = Append(allocated, id)
             /\ pendingRef' = Extend(pendingRef, id, [InitRecord EXCEPT !.ws = ws])
             /\ timers' = setTimeout(timers, id, "init")
             /\ settles' = Extend(settles, id, 0)
  /\ lastSettled' = <<>>
  /\ stream' = <<>>
  /\ UNCHANGED <<url, status, lastError, wsRef, sessions, sessionRef, now>>

\* initTimer firing
initTimeout(id) ==
  /\ id \in DOMAIN timers
  /\ timers[id] = "init"
  /\ stream' = <<>>
  /\ timers' = Remove(timers, id)
  /\ IF id \in DOMAIN pendingRef
     THEN /\ pendingRef' = pendingDelete(pendingRef, id)
          /\ settles' = [settles EXCEPT ![id] = @ + 1]
          /\ lastSettled' = Settled(id, "timeout", pendingRef[id])
          /\ lastError' = [msg |-> "Initialize timed out", detail |-> ""]
          /\ status' = "error"
     ELSE /\ lastSettled' = <<>>
          /\ UNCHANGED <<pendingRef, settles, lastError, status>>
  /\ UNCHANGED <<msgIdCounter, allocated, url, wsRef, sockets,
                 sessions, sessionRef, now>>

\* the timer armed by call() firing
callTimeout(id) ==
  /\ id \in DOMAIN timers
  /\ timers[id] = "call"
  /\ stream' = <<>>
  /\ timers' = Remove(timers, id)
  /\ IF id \in DOMAIN pendingRef
     THEN /\ pendingRef' = pendingDelete(pendingRef, id)
          /\ settles' = [settles EXCEPT ![id] = @ + 1]
          /\ lastSettled' = Settled(id, "timeout", pendingRef[id])
          /\ sessions' = AfterSettle(sessions, pendingRef[id], "timeout", NoResult)
     ELSE /\ lastSettled' = <<>>
          /\ UNCHANGED <<pendingRef, settles, sessions>>
  /\ UNCHANGED <<msgIdCounter, allocated, sessionRef, now>>
  /\ UNCHANGED connVars

(***************************************************************************)
(* Inbound frames.  A frame is what JSON.parse yields, or unparseable.     *)
(***************************************************************************)
ItemTypes == {"text", "thinking", "tool_call", "tool_result"}
Items == [id : {"i1", "i2"}, type : ItemTypes]
DenialLists == {<<>>, <<"Bash">>, <<"Edit", "Bash">>}
NoItem == [id |-> "", type |-> ""]

Frame(kind, id, body, method, thread_id, turn_id, delta, item, denials) ==
  [kind |-> kind, id |-> id, body |-> body, method |-> method,
   thread_id |-> thread_id, turn_id |-> turn_id, delta |-> delta,
   item |-> item, denials |-> denials]

NoDelta == [type |-> "", text |-> <<>>]

Response(id, body, thread_id) ==
  Frame("response", id, body, "", thread_id, "", NoDelta, NoItem, <<>>)
Notification(method, thread_id, turn_id, delta, item, denials) ==
  Frame("notification", 0, "", method, thread_id, turn_id, delta, item, denials)

ResponseFrames ==
  {Response(id, body, t) : id \in 1..(MaxId + 1), body \in {"result", "error"},
                           t \in ThreadIds}
UnroutableFrames ==
  { Frame("unparseable", 0, "", "", "", "", NoDelta, NoItem, <<>>),
    Frame("object", 0, "", "", "", "", NoDelta, NoItem, <<>>),
    Notification("initialized", "", "", NoDelta, NoItem, <<>>),
    Notification("thread/unknown", "t1", "r1", NoDelta, NoItem, <<>>) }
TurnFrames ==
  {Notification(m, t, r, NoDelta, NoItem, <<>>) :
     m \in {"turn/started", "turn/completed", "turn/error"},
     t \in ThreadIds, r \in TurnIds}
ProgressFrames ==
  {Notification("item/progress", "", r, [type |-> ty, text |-> tx], NoItem, <<>>) :
     r \in TurnIds, ty \in {"text", "thinking"}, tx \in Deltas \cup {<<>>}}
CreatedFrames ==
  {Notification("item/created", "", r, NoDelta, it, <<>>) :
     r \in TurnIds, it \in Items}
DeniedFrames ==
  {Notification("turn/permission_denied", t, "", NoDelta, NoItem, d) :
     t \in ThreadIds, d \in DenialLists}
NotificationFrames ==
  TurnFrames \cup ProgressFrames \cup CreatedFrames \cup DeniedFrames
Frames == ResponseFrames \cup UnroutableFrames \cup NotificationFrames

(***************************************************************************)
(* handleNotification(method, params): the store after the notification.   *)
(* S is the store, R is sessionRef.current.                                *)
(***************************************************************************)
\* a router whose default branch ends the turn of the named thread
unhandledEndsTurn(S, msg) ==
  updateSession(S, msg.thread_id, [i \in DOMAIN S |-> TurnEnded(S[i])])

\* a method none of the branches matches: the function returns
unhandled(S, msg) == S

handleNotification(S, R, msg) ==
  CASE msg.method = "initialized" -> S
    [] msg.method = "turn/started" ->
         updateSession(S, msg.thread_id,
           [i \in DOMAIN S |-> TurnStarted(S[i], msg.turn_id)])
    [] msg.method = "item/progress" ->
         LET k == FindByTurn(R, msg.turn_id)
         IN IF k = 0 THEN S
            ELSE IF msg.delta.type = "text" /\ msg.delta.text # <<>>
                 THEN updateSession(S, R[k].thread_id,
                        [i \in DOMAIN S |-> ProgressText(S[i], msg.turn_id, msg.delta.text)])
                 ELSE S
    [] msg.method = "item/created" ->
         LET k == FindByTurn(R, msg.turn_id)
         IN IF k = 0 THEN S
            ELSE updateSession(S, R[k].thread_id,
                   [i \in DOMAIN S |-> ItemCreated(S[i], msg.turn_id, msg.item)])
    [] msg.method = "turn/permission_denied" ->
         updateSession(S, msg.thread_id,
           [i \in DOMAIN S |-> PermissionDenied(S[i], msg.denials)])
    [] msg.method \in {"turn/completed", "turn/error"} ->
         updateSession(S, msg.thread_id, [i \in DOMAIN S |-> TurnEnded(S[i])])
    [] OTHER -> unhandled(S, msg)

InitRejected(detail) == [msg |-> "Initialize rejected", detail |-> detail]

\* history: an item/progress or item/created notification with the thread
\* of the session it is applied to; "" for a delta that carries no text,
\* "none" when the lookup finds no session and the frame is dropped
Routed(R, msg) ==
  LET k == FindByTurn(R, msg.turn_id)
      carries == \/ msg.method = "item/created"
                 \/ msg.delta.type = "text" /\ msg.delta.text # <<>>
  IN [method |-> msg.method, turn_id |-> msg.turn_id,
      thread_id |-> IF ~carries THEN ""
                    ELSE IF k = 0 THEN "none" ELSE R[k].thread_id]

\* history: `stream` after the frame e.  An applied text delta starts a
\* window or, right after delta-then-created, completes it; an item/created
\* right after a single applied delta joins it; a dropped text delta is a
\* window of its own; anything else empties the window
Window(s, e) ==
  IF e.method = "item/progress"
  THEN IF e.thread_id = "" THEN <<>>
       ELSE IF e.thread_id = "none" THEN <<e>>
       ELSE IF Len(s) = 2 THEN Append(s, e) ELSE <<e>>
  ELSE IF Len(s) = 1 /\ s[1].thread_id # "none" THEN Append(s, e) ELSE <<>>

\* ws.onmessage
onmessage(ws, msg) ==
  /\ ~sockets[ws].openPending
  /\ sockets[ws].readyState \in {"OPEN", "CLOSING"}
  /\ stream' = IF stale(ws) THEN stream
               ELSE IF /\ msg.kind = "notification"
                       /\ msg.method \in {"item/progress", "item/created"}
               THEN Window(stream, Routed(sessionRef, msg))
               ELSE <<>>
  /\ lastSettled' = IF ~stale(ws) /\ msg.kind = "response"
                       /\ msg.id \in DOMAIN pendingRef
                    THEN Settled(msg.id, IF msg.body = "error" THEN "error"
                                         ELSE "resolved", pendingRef[msg.id])
                    ELSE <<>>
  /\ IF stale(ws) \/ msg.kind \in {"unparseable", "object"}
     THEN UNCHANGED rest
     ELSE IF msg.kind = "response"
     THEN IF msg.id \in DOMAIN pendingRef
          THEN LET pending == pendingRef[msg.id]
                   outcome == IF msg.body = "error" THEN "error" ELSE "resolved"
               IN /\ pendingRef' = pendingDelete(pendingRef, msg.id)
                  /\ timers' = clearTimeout(timers, msg.id)
                  /\ settles' = [settles EXCEPT ![msg.id] = @ + 1]
                  /\ IF pending.op = "connect"
                     THEN /\ status' = IF outcome = "resolved" THEN "connected"
                                       ELSE "error"
                          /\ lastError' = IF outcome = "resolved" THEN lastError
                                          ELSE InitRejected("error")
                          /\ UNCHANGED sessions
                     ELSE /\ sessions' = AfterSettle(sessions, pending, outcome,
                                 [thread_id |-> msg.thread_id, created_at |-> 0])
                          /\ UNCHANGED <<status, lastError>>
                  /\ UNCHANGED <<msgIdCounter, allocated, url, wsRef,
                                 sockets, sessionRef, now>>
          ELSE UNCHANGED rest
     ELSE /\ sessions' = handleNotification(sessions, sessionRef, msg)
          /\ UNCHANGED <<sessionRef, now>>
          /\ UNCHANGED connVars
          /\ UNCHANGED callVars

\* a close-code policy that records the error and leaves the status alone
ClosePolicyKeepsStatus(code, reason, err) ==
  [status |-> status,
   lastError |-> IF code = CLOSE_NORMAL THEN err
                 ELSE [msg |-> "Closed with code", detail |-> CodeText(code)]]

\* a close-code policy that never reports the reason of an abnormal closure
ClosePolicyDefaultOnly(code, reason, err) ==
  IF code = CLOSE_NORMAL
  THEN [status |-> "disconnected", lastError |-> err]
  ELSE IF code = CLOSE_ABNORMAL
  THEN [status |-> "error",
        lastError |-> [msg |-> "Connection failed", detail |-> ""]]
  ELSE [status |-> "error",
        lastError |-> IF reason # "" THEN [msg |-> reason, detail |-> ""]
                      ELSE [msg |-> "Closed with code", detail |-> CodeText(code)]]

\* the status and error the close-code policy of ws.onclose sets
ClosePolicy(code, reason, err) ==
  IF code = CLOSE_NORMAL
  THEN [status |-> "disconnected", lastError |-> err]
  ELSE IF code = CLOSE_ABNORMAL
  THEN [status |-> "error",
        lastError |-> IF reason # "" THEN [msg |-> reason, detail |-> ""]
                      ELSE [msg |-> "Connection failed", detail |-> ""]]
  ELSE [status |-> "error",
        lastError |-> IF reason # "" THEN [msg |-> reason, detail |-> ""]
                      ELSE [msg |-> "Closed with code", detail |-> CodeText(code)]]

\* ws.onclose.  The platform sets readyState to CLOSED before dispatching.
onclose(ws, code, reason) ==
  /\ sockets[ws].readyState # "CLOSED"
  /\ sockets' = [sockets EXCEPT ![ws].readyState = "CLOSED",
                                ![ws].openPending = FALSE]
  /\ stream' = <<>>
  /\ IF wsRef = ws
     THEN LET r == rejectAllPending(pendingRef)
              initRejected == \E id \in r.rejected : pendingRef[id].op = "connect"
              policy == ClosePolicy(code, reason,
                          IF initRejected THEN InitRejected(CodeText(code))
                          ELSE lastError)
          IN /\ wsRef' = 0
             /\ pendingRef' = r.pending
             /\ timers' = [id \in DOMAIN timers \ r.rejected |-> timers[id]]
             /\ settles' = [id \in DOMAIN settles |->
                              IF id \in r.rejected THEN settles[id] + 1
                              ELSE settles[id]]
             /\ lastSettled' = [id \in r.rejected |->
                                  [outcome |-> "closed", op |-> pendingRef[id].op,
                                   ws |-> pendingRef[id].ws]]
             /\ sessions' = AfterRejectAll(sessions, pendingRef, r.rejected)
             /\ status' = policy.status
             /\ lastError' = policy.lastError
     ELSE LET policy == ClosePolicy(code, reason, lastError)
          IN /\ status' = policy.status
             /\ lastError' = policy.lastError
             /\ lastSettled' = <<>>
             /\ UNCHANGED <<wsRef, pendingRef, timers, settles, sessions>>
  /\ UNCHANGED <<msgIdCounter, allocated, url, sessionRef, now>>

(***************************************************************************)
(* Session operations.                                                     *)
(***************************************************************************)
createSession(cwd, permission_mode) ==
  /\ call(PendingRecord("thread/start", "createSession", "", cwd,
                        Some(permission_mode)), sessions)
  /\ UNCHANGED <<sessionRef, now>>
  /\ UNCHANGED connVars

\* Date.now() never goes backwards
sendMessage(thread_id, content) ==
  \E ts \in now..MaxClock :
    /\ now' = ts
    /\ call(PendingRecord("turn/start", "sendMessage", thread_id, "", None),
            updateSession(sessions, thread_id,
                          [i \in DOMAIN sessions |-> SendUpdate(sessions[i], ts, content)]))
    /\ UNCHANGED sessionRef
    /\ UNCHANGED connVars

interruptTurn(thread_id) ==
  /\ call(PendingRecord("turn/interrupt", "interruptTurn", thread_id, "", None),
          sessions)
  /\ UNCHANGED <<sessionRef, now>>
  /\ UNCHANGED connVars

approvePermission(thread_id, permission_mode) ==
  /\ call(PendingRecord("approval/respond", "approvePermission", thread_id, "",
                        permission_mode), sessions)
  /\ UNCHANGED <<sessionRef, now>>
  /\ UNCHANGED connVars

changePermissionMode(thread_id, permission_mode) ==
  /\ call(PendingRecord("approval/respond", "changePermissionMode", thread_id, "",
                        Some(permission_mode)), sessions)
  /\ UNCHANGED <<sessionRef, now>>
  /\ UNCHANGED connVars

setLastBlocked(thread_id, content) ==
  /\ sessions' = updateSession(sessions, thread_id,
                               [i \in DOMAIN sessions |-> BlockedUpdate(sessions[i], content)])
  /\ lastSettled' = <<>>
  /\ stream' = <<>>
  /\ UNCHANGED <<sessionRef, now>>
  /\ UNCHANGED connVars
  /\ UNCHANGED callVars

dismissPermissionDenial(thread_id) ==
  /\ sessions' = updateSession(sessions, thread_id,
                   [i \in DOMAIN sessions |-> DismissUpdate(sessions[i])])
  /\ lastSettled' = <<>>
  /\ stream' = <<>>
  /\ UNCHANGED <<sessionRef, now>>
  /\ UNCHANGED connVars
  /\ UNCHANGED callVars

deleteSession(thread_id) ==
  LET k == FindByThread(sessionRef, thread_id)
  IN /\ IF k # 0 /\ sessionRef[k].active_turn_id # None
        THEN call(PendingRecord("turn/interrupt", "deleteSession", thread_id, "",
                                None), sessions)
        ELSE /\ sessions' = RemoveSession(sessions, thread_id)
             /\ lastSettled' = <<>>
             /\ stream' = <<>>
             /\ UNCHANGED callVars
     /\ UNCHANGED <<sessionRef, now>>
     /\ UNCHANGED connVars

(***************************************************************************)
(* The connection manager and the call dispatcher, from construction of    *)
(* the hook: every connection event, both timers, and the calls of         *)
(* createSession.  The frames a server sends are arbitrary: responses to   *)
(* any id (ids not yet handed out and ids already settled included),       *)
(* frames that cannot be routed, and the notification that starts a turn.  *)
(* Close events come with every close code and an empty reason text.       *)
(***************************************************************************)
ConnFrames ==
  {Response(id, body, "t1") : id \in 1..MaxId, body \in {"result", "error"}}
  \cup UnroutableFrames
  \cup {Notification("turn/started", "t1", "r1", NoDelta, NoItem, <<>>)}

Next ==
  \/ \E u \in Urls : connect(u)
  \/ disconnect
  \/ \E ws \in DOMAIN sockets : onopen(ws)
  \/ \E ws \in DOMAIN sockets : \E msg \in ConnFrames : onmessage(ws, msg)
  \/ \E ws \in DOMAIN sockets : \E code \in CloseCodes : onclose(ws, code, "")
  \/ \E id \in DOMAIN timers : initTimeout(id)
  \/ \E id \in DOMAIN timers : callTimeout(id)
  \/ \E cwd \in Cwds : createSession(cwd, "default")

Spec == Init /\ [][Next]_vars

(***************************************************************************)
(* The streaming assembler on an established connection.  The initial      *)
(* state is the hook after connect, the open event, the answered handshake *)
(* (id 1), two createSession calls answered with the threads t1 and t2     *)
(* (ids 2 and 3), turn/started for r2 on t2, and a render.  `allocated`    *)
(* starts empty: it lists the ids handed out from here on.  The server     *)
(* streams text deltas for turn r1 and finalized items for turn r2, while  *)
(* t2 stays on r2 and turns r1 and r2 start and end on t1.                 *)
(***************************************************************************)
InitStream ==
  /\ msgIdCounter = 4
  /\ url = "ws://a"
  /\ status = "connected"
  /\ lastError = NoError
  /\ sessions = <<NewSession("t1", 0, "~/Desktop", "default"),
                  TurnStarted(NewSession("t2", 0, "~/Desktop", "default"), "r2")>>
  /\ sessionRef = sessions
  /\ wsRef = 1
  /\ pendingRef = <<>>
  /\ sockets = <<[url |-> "ws://a", readyState |-> "OPEN", openPending |-> FALSE]>>
  /\ timers = <<>>
  /\ settles = <<1, 1, 1>>
  /\ lastSettled = <<>>
  /\ allocated = <<>>
  /\ stream = <<>>
  /\ now = 0

StreamItems == [id : {"i1"}, type : {"text"}]
StreamFrames ==
  {Notification("turn/started", "t1", "r1", NoDelta, NoItem, <<>>),
   Notification("turn/started", "t1", "r2", NoDelta, NoItem, <<>>),
   Notification("turn/completed", "t1", "r1", NoDelta, NoItem, <<>>),
   Notification("turn/error", "t1", "r2", NoDelta, NoItem, <<>>),
   Notification("item/progress", "", "r1", [type |-> "thinking", text |-> <<"a">>],
                NoItem, <<>>)}
  \cup {Notification("item/progress", "", "r1", [type |-> "text", text |-> tx],
                     NoItem, <<>>) : tx \in Deltas \cup {<<>>}}
  \cup {Notification("item/created", "", "r2", NoDelta, it, <<>>) :
          it \in StreamItems}

NextStream ==
  /\ \/ Render
     \/ \E msg \in StreamFrames : onmessage(wsRef, msg)
  /\ BoundedMessages(sessions', MaxStreamMsgs, MaxStreamText, MaxStreamItems)

SpecStream == InitStream /\ [][NextStream]_vars

(***************************************************************************)
(* The item assembler on an established connection, from the same initial  *)
(* state as the streaming assembler.  Turn r1 starts and ends on t1 (with  *)
(* turn/completed or turn/error); the server streams a text delta and      *)
(* finalized items of every item type for r1.                              *)
(***************************************************************************)
ItemsItems == [id : {"i1"}, type : ItemTypes]
ItemsFrames ==
  {Notification(m, "t1", "r1", NoDelta, NoItem, <<>>) :
     m \in {"turn/started", "turn/completed", "turn/error"}}
  \cup {Notification("item/progress", "", "r1",
                     [type |-> "text", text |-> <<"a">>], NoItem, <<>>)}
  \cup {Notification("item/created", "", "r1", NoDelta, it, <<>>) :
          it \in ItemsItems}

NextItems ==
  /\ \/ Render
     \/ \E msg \in ItemsFrames : onmessage(wsRef, msg)
  /\ BoundedMessages(sessions', MaxItemsMsgs, MaxItemsText, MaxItemsItems)

SpecItems == InitStream /\ [][NextItems]_vars

(***************************************************************************)
(* Permission handling on an established connection.  The initial state is *)
(* the hook after connect, the answered handshake (id 1), two              *)
(* createSession calls answered with t1 and t2 (ids 2 and 3) and a         *)
(* sendMessage("t1", "hi") whose turn/start (id 4) was answered.  The user  *)
(* approves, changes the mode, dismisses and marks blocked content on t1;  *)
(* the server answers calls and reports denials; calls time out; the       *)
(* transport closes.                                                       *)
(***************************************************************************)
InitPermission ==
  /\ msgIdCounter = 5
  /\ url = "ws://a"
  /\ status = "connected"
  /\ lastError = NoError
  /\ sessions = <<SendUpdate(NewSession("t1", 0, "~/Desktop", "default"), 0, "hi"),
                  NewSession("t2", 0, "~/Desktop", "default")>>
  /\ sessionRef = sessions
  /\ wsRef = 1
  /\ pendingRef = <<>>
  /\ sockets = <<[url |-> "ws://a", readyState |-> "OPEN", openPending |-> FALSE]>>
  /\ timers = <<>>
  /\ settles = <<1, 1, 1, 1>>
  /\ lastSettled = <<>>
  /\ allocated = <<>>
  /\ stream = <<>>
  /\ now = 0

PermissionFrames ==
  {Response(id, body, "t1") :
     id \in 5..(4 + MaxPermCalls), body \in {"result", "error"}}
  \cup {Notification("turn/permission_denied", "t1", "", NoDelta, NoItem, d) :
          d \in {<<"Bash">>, <<"Edit", "Bash">>}}
  \cup {Notification("turn/permission_denied", "t2", "", NoDelta, NoItem, <<"Bash">>)}

NextPermission ==
  /\ \/ \E m \in {None, Some("default")} : approvePermission("t1", m)
     \/ \E m \in PermissionMode : changePermissionMode("t1", m)
     \/ dismissPermissionDenial("t1")
     \/ setLastBlocked("t1", "again")
     \/ \E ws \in DOMAIN sockets : \E msg \in PermissionFrames : onmessage(ws, msg)
     \/ \E id \in DOMAIN timers : callTimeout(id)
     \/ \E ws \in DOMAIN sockets : onclose(ws, CLOSE_NORMAL, "")
  /\ Len(allocated') <= MaxPermCalls

SpecPermission == InitPermission /\ [][NextPermission]_vars

(***************************************************************************)
(* Sending messages on an established connection, from the initial state   *)
(* of the streaming assembler (t1 has no message yet).  The user sends      *)
(* messages on t1; the server answers the calls and reports a denial; calls *)
(* time out; the transport closes abnormally.                              *)
(***************************************************************************)
SendContents == {"hi", "yo"}
SendFrames ==
  {Response(id, body, "t1") : id \in 4..(3 + MaxId), body \in {"result", "error"}}
  \cup {Notification("turn/permission_denied", "t1", "", NoDelta, NoItem, <<"Bash">>)}

NextSend ==
  \/ \E c \in SendContents : sendMessage("t1", c)
  \/ \E ws \in DOMAIN sockets : \E msg \in SendFrames : onmessage(ws, msg)
  \/ \E id \in DOMAIN timers : callTimeout(id)
  \/ \E ws \in DOMAIN sockets : onclose(ws, CLOSE_ABNORMAL, "")

SpecSend == InitStream /\ [][NextSend]_vars

(***************************************************************************)
(* Interrupting a turn on an established connection, from the initial      *)
(* state of the streaming assembler (t2 is on turn r2).  The user           *)
(* interrupts t2; the server answers the calls, creates an item of r2,      *)
(* ends r2 with turn/completed or turn/error and starts it again; calls     *)
(* time out; the transport closes abnormally.                              *)
(***************************************************************************)
InterruptFrames ==
  {Response(id, body, "t2") : id \in 4..(3 + MaxId), body \in {"result", "error"}}
  \cup {Notification(m, "t2", "r2", NoDelta, NoItem, <<>>) :
          m \in {"turn/started", "turn/completed", "turn/error"}}
  \cup {Notification("item/created", "", "r2", NoDelta, it, <<>>) :
          it \in StreamItems}

NextInterrupt ==
  /\ \/ Render
     \/ interruptTurn("t2")
     \/ \E ws \in DOMAIN sockets : \E msg \in InterruptFrames : onmessage(ws, msg)
     \/ \E id \in DOMAIN timers : callTimeout(id)
     \/ \E ws \in DOMAIN sockets : onclose(ws, CLOSE_ABNORMAL, "")
  /\ BoundedMessages(sessions', MaxStreamMsgs, MaxStreamText, MaxStreamItems)

(***************************************************************************)
(* The life of the transports, from construction of the hook: connect,     *)
(* disconnect, the open event, the answer to the handshake or its timeout,  *)
(* and close events with every close code, with and without a reason text.  *)
(***************************************************************************)
CloseFrames ==
  {Response(id, body, "t1") : id \in 1..MaxId, body \in {"result", "error"}}

NextClose ==
  \/ \E u \in Urls : connect(u)
  \/ disconnect
  \/ \E ws \in DOMAIN sockets : onopen(ws)
  \/ \E ws \in DOMAIN sockets : \E msg \in CloseFrames : onmessage(ws, msg)
  \/ \E ws \in DOMAIN sockets : \E code \in CloseCodes :
       \E reason \in CloseReasons : onclose(ws, code, reason)
  \/ \E id \in DOMAIN timers : initTimeout(id)

SpecClose == Init /\ [][NextClose]_vars

SpecInterrupt == InitStream /\ [][NextInterrupt]_vars

(***************************************************************************)
(* Two turns of one session on an established connection, from the initial *)
(* state of the streaming assembler.  The server starts the turns r1 and r2 *)
(* on t1, ends them, and streams text deltas for both.                      *)
(***************************************************************************)
TurnsFrames ==
  {Notification("turn/started", "t1", r, NoDelta, NoItem, <<>>) : r \in TurnIds}
  \cup {Notification("turn/completed", "t1", r, NoDelta, NoItem, <<>>) : r \in TurnIds}
  \cup {Notification("item/progress", "", r, [type |-> "text", text |-> <<"a">>],
                     NoItem, <<>>) : r \in TurnIds}

NextTurns ==
  /\ \/ Render
     \/ \E msg \in TurnsFrames : onmessage(wsRef, msg)
  /\ BoundedMessages(sessions', MaxStreamMsgs, MaxStreamText, MaxStreamItems)

SpecTurns == InitStream /\ [][NextTurns]_vars

(***************************************************************************)
(* The message list of one session on an established connection, from the  *)
(* initial state of the streaming assembler (t2 on turn r2, rendered).  The *)
(* user sends messages on t2 while the server streams a text delta, creates *)
(* a text item and a tool item, ends turn r2 and starts it again.  No       *)
(* render happens in between: the snapshot stays the one of the initial    *)
(* state, with t2 on r2.                                                    *)
(***************************************************************************)
MessagesItems == [id : {"i1"}, type : {"text", "tool_call"}]
MessagesFrames ==
  {Notification(m, "t2", "r2", NoDelta, NoItem, <<>>) :
     m \in {"turn/started", "turn/completed"}}
  \cup {Notification("item/progress", "", "r2", [type |-> "text", text |-> <<"a">>],
                     NoItem, <<>>)}
  \cup {Notification("item/created", "", "r2", NoDelta, it, <<>>) :
          it \in MessagesItems}

NextMessages ==
  /\ \/ \E c \in Contents : sendMessage("t2", c)
     \/ \E msg \in MessagesFrames : onmessage(wsRef, msg)
  /\ BoundedMessages(sessions', MaxMessagesMsgs, MaxMessagesText, MaxMessagesText)

SpecMessages == InitStream /\ [][NextMessages]_vars

(***************************************************************************)
(* The session store on an established connection, from the initial state  *)
(* of the streaming assembler (t1 idle, t2 on turn r2, rendered).  The user *)
(* creates and deletes sessions and disconnects; the server answers the     *)
(* calls and sends every kind of notification, for the threads and turns    *)
(* of the store and for a thread t9 and a turn r9 that nobody knows; calls  *)
(* time out; the transport closes.  No render happens in between: the      *)
(* snapshot stays the one of the initial state.                             *)
(***************************************************************************)
StoreFrames ==
  {Response(id, body, "t3") : id \in 4..(3 + MaxId), body \in {"result", "error"}}
  \cup {Notification(m, t, "r1", NoDelta, NoItem, <<>>) :
          m \in {"turn/started", "turn/completed", "turn/error"},
          t \in {"t1", "t9"}}
  \cup {Notification("item/progress", "", r, [type |-> "text", text |-> <<"a">>],
                     NoItem, <<>>) : r \in {"r2", "r9"}}
  \cup {Notification("item/created", "", r, NoDelta, it, <<>>) :
          r \in {"r2", "r9"}, it \in StreamItems}
  \cup {Notification("turn/permission_denied", t, "", NoDelta, NoItem, <<"Bash">>) :
          t \in {"t2", "t9"}}

NextStore ==
  /\ \/ \E cwd \in Cwds : createSession(cwd, "default")
     \/ \E t \in ThreadIds : deleteSession(t)
     \/ disconnect
     \/ \E ws \in DOMAIN sockets : \E msg \in StoreFrames : onmessage(ws, msg)
     \/ \E id \in DOMAIN timers : callTimeout(id)
     \/ \E ws \in DOMAIN sockets : onclose(ws, CLOSE_NORMAL, "")
  /\ BoundedMessages(sessions', MaxStoreMsgs, MaxStoreMsgs, MaxStoreMsgs)

SpecStore == InitStream /\ [][NextStore]_vars

(***************************************************************************)
(* Overlapping calls on an established connection, from the initial state  *)
(* of the streaming assembler (t1 idle, t2 on turn r2, rendered).  The user *)
(* issues calls of every session operation; the server answers them with a  *)
(* result or an error, in any order; calls time out.                        *)
(***************************************************************************)
CallFrames ==
  {Response(id, body, "t1") : id \in 4..(3 + MaxId), body \in {"result", "error"}}

NextCalls ==
  \/ Render
  \/ \E cwd \in Cwds : createSession(cwd, "default")
  \/ \E c \in Contents : sendMessage("t1", c)
  \/ interruptTurn("t2")
  \/ approvePermission("t1", None)
  \/ changePermissionMode("t2", "acceptEdits")
  \/ deleteSession("t2")
  \/ \E ws \in DOMAIN sockets : \E msg \in CallFrames : onmessage(ws, msg)
  \/ \E id \in DOMAIN timers : callTimeout(id)

SpecCalls == InitStream /\ [][NextCalls]_vars

(***************************************************************************)
(* Deleting sessions on an established connection, from the initial state  *)
(* of the streaming assembler (t1 idle, t2 on turn r2, rendered).  The user *)
(* deletes t1 or t2; the server answers the calls and keeps sending         *)
(* notifications for both threads and for turn r2; calls time out; the      *)
(* transport closes abnormally.                                            *)
(***************************************************************************)
DeleteFrames ==
  {Response(id, body, "t2") : id \in 4..(3 + MaxId), body \in {"result", "error"}}
  \cup {Notification("turn/started", t, "r2", NoDelta, NoItem, <<>>) :
          t \in ThreadIds}
  \cup {Notification("turn/completed", "t2", "r2", NoDelta, NoItem, <<>>),
        Notification("turn/permission_denied", "t2", "", NoDelta, NoItem, <<"Bash">>)}
  \cup {Notification("item/created", "", "r2", NoDelta, it, <<>>) :
          it \in StreamItems}

NextDelete ==
  /\ \/ Render
     \/ \E t \in ThreadIds : deleteSession(t)
     \/ \E ws \in DOMAIN sockets : \E msg \in DeleteFrames : onmessage(ws, msg)
     \/ \E id \in DOMAIN timers : callTimeout(id)
     \/ \E ws \in DOMAIN sockets : onclose(ws, CLOSE_ABNORMAL, "")
  /\ BoundedMessages(sessions', MaxStreamMsgs, MaxStreamText, MaxStreamItems)

SpecDelete == InitStream /\ [][NextDelete]_vars

(***************************************************************************)
(* Properties of the call dispatcher and the connection manager.           *)
(***************************************************************************)
\* the step is the current transport's delivery of a response to call `id`
AnsweredBy(id, body) ==
  /\ wsRef # 0
  /\ onmessage(wsRef, Response(id, body, "t1"))

\* the step is the close event of the current transport
ClosedCurrent ==
  /\ wsRef # 0
  /\ \E code \in CloseCodes : \E reason \in CloseReasons :
       onclose(wsRef, code, reason)

\* C1: every call settles exactly once.  A record is in the pending table
\* exactly while none of its callbacks has run; the first of {response with
\* its id, its timer, close of the transport} to be processed runs one
\* callback, decides the outcome and removes the record; whatever is
\* processed afterwards for that id changes neither the outcome nor the
\* table.
C1_SettlesExactlyOnce ==
  [][ /\ \A id \in DOMAIN settles' :
           /\ settles'[id] <= 1
           /\ (id \in DOMAIN pendingRef') <=> (settles'[id] = 0)
      /\ \A id \in DOMAIN settles :
           settles[id] = 1 =>
             /\ settles'[id] = 1
             /\ id \notin DOMAIN pendingRef'
             /\ id \notin DOMAIN lastSettled'
      /\ \A id \in DOMAIN pendingRef :
           /\ \A body \in {"result", "error"} :
                AnsweredBy(id, body) =>
                  /\ id \notin DOMAIN pendingRef'
                  /\ lastSettled'[id].outcome =
                       IF body = "error" THEN "error" ELSE "resolved"
           /\ (callTimeout(id) \/ initTimeout(id)) =>
                  /\ id \notin DOMAIN pendingRef'
                  /\ lastSettled'[id].outcome = "timeout"
      /\ ClosedCurrent =>
           \A id \in DOMAIN pendingRef :
             /\ id \notin DOMAIN pendingRef'
             /\ lastSettled'[id].outcome = "closed"
    ]_vars

\* a call of createSession has timed out on a connected transport while
\* nothing else is pending
C1_Witness ==
  /\ status = "connected"
  /\ \E id \in DOMAIN lastSettled :
       /\ lastSettled[id].outcome = "timeout"
       /\ lastSettled[id].op = "createSession"
       /\ settles[id] = 1
       /\ id \notin DOMAIN pendingRef

\* C2: the close event of the current transport rejects every record that
\* is pending at that moment with the connection-closed reason, each exactly
\* once, and leaves the pending table empty.
C2_CloseRejectsAll ==
  [][ ClosedCurrent =>
        /\ pendingRef' = <<>>
        /\ DOMAIN lastSettled' = DOMAIN pendingRef
        /\ \A id \in DOMAIN pendingRef :
             /\ lastSettled'[id].outcome = "closed"
             /\ settles'[id] = settles[id] + 1
    ]_vars

\* the handshake and a call were both pending when the transport closed
C2_Witness ==
  /\ wsRef = 0
  /\ pendingRef = <<>>
  /\ \E i, j \in DOMAIN lastSettled :
       /\ i # j
       /\ lastSettled[i].outcome = "closed"
       /\ lastSettled[j].outcome = "closed"

\* C3: no pending record registered against a replaced transport survives
\* the connect() that replaces it: every pending record belongs to the
\* current transport.
C3_NoPendingOfOldTransport ==
  \A id \in DOMAIN pendingRef : pendingRef[id].ws = wsRef

\* C4: status becomes 'connected' only by the successful answer to the
\* initialize call that was sent on the current transport.
C4_ConnectedOnlyByOwnHandshake ==
  [][ (status' = "connected" /\ status # "connected") =>
        \E id \in DOMAIN lastSettled' :
          /\ lastSettled'[id].op = "connect"
          /\ lastSettled'[id].outcome = "resolved"
          /\ lastSettled'[id].ws = wsRef'
    ]_vars

\* the handshake of the current transport has just timed out or been rejected
HandshakeJustFailed ==
  \E id \in DOMAIN lastSettled :
    /\ lastSettled[id].op = "connect"
    /\ lastSettled[id].outcome \in {"timeout", "error"}
    /\ lastSettled[id].ws = wsRef

\* C5: after the handshake timed out or was rejected the status is 'error'
\* and a call() rejects at once: nothing is sent, no record is registered.
C5_FailFastAfterHandshakeFailure ==
  [][ /\ HandshakeJustFailed' => status' = "error"
      /\ (HandshakeJustFailed /\ \E cwd \in Cwds : createSession(cwd, "default")) =>
           /\ pendingRef' = pendingRef
           /\ \E id \in DOMAIN lastSettled' : lastSettled'[id].outcome = "notsent"
    ]_vars

TransportNotOpen ==
  wsRef = 0 \/ sockets[wsRef].readyState # "OPEN"

\* C6: a call() issued while the transport is absent or not open rejects
\* immediately; the pending table and the armed timers are unchanged.
C6_NotOpenRejectsImmediately ==
  [][ (TransportNotOpen /\ \E cwd \in Cwds : createSession(cwd, "default")) =>
        /\ pendingRef' = pendingRef
        /\ timers' = timers
        /\ DOMAIN lastSettled' = {msgIdCounter}
        /\ lastSettled'[msgIdCounter].outcome = "notsent"
        /\ settles'[msgIdCounter] = 1
    ]_vars

\* a call was rejected unsent while the current transport was closing and
\* the handshake sent on it was still pending
C6_Witness ==
  /\ wsRef # 0
  /\ sockets[wsRef].readyState = "CLOSING"
  /\ pendingRef # <<>>
  /\ \E id \in DOMAIN lastSettled :
       /\ lastSettled[id].outcome = "notsent"
       /\ id \notin DOMAIN pendingRef
       /\ id \notin DOMAIN timers

\* C7: correlation ids are never reused: the ids handed out by nextId are
\* strictly increasing, so no two requests carry the same id.
C7_IdsStrictlyIncreasing ==
  \A i, j \in DOMAIN allocated : i < j => allocated[i] < allocated[j]

\* a handshake id and the id of a call that could not be sent
C7_Witness ==
  /\ Len(allocated) >= 2
  /\ \E id \in DOMAIN pendingRef : pendingRef[id].op = "connect"
  /\ \E id \in DOMAIN lastSettled : lastSettled[id].outcome = "notsent"

Unroutable(msg) ==
  \/ msg.kind \in {"unparseable", "object"}
  \/ msg.kind = "response" /\ msg.id \notin DOMAIN pendingRef
  \/ msg.kind = "notification" /\ msg.method \in {"initialized", "thread/unknown"}

\* C8: an inbound frame that cannot be routed leaves the pending table, the
\* session store and the connection status unchanged.
C8_UnroutableFrameIsNoOp ==
  [][ \/ UNCHANGED <<pendingRef, sessions, status>>
      \/ ~ \E msg \in ConnFrames :
             Unroutable(msg) /\ \E ws \in DOMAIN sockets : onmessage(ws, msg)
    ]_vars

\* an open, connected transport with a call pending and a session with an
\* active turn: every unroutable frame can be delivered here
C8_Witness ==
  /\ wsRef # 0
  /\ sockets[wsRef].readyState = "OPEN"
  /\ status = "connected"
  /\ \E i \in DOMAIN sessions : sessions[i].active_turn_id # None
  /\ lastSettled = <<>>

\* C9: open and message events of a transport that is not the current one
\* settle no call, send no handshake and do not touch the session store.
C9_StaleTransportIsIgnored ==
  [][ \/ UNCHANGED <<pendingRef, timers, settles, msgIdCounter, allocated,
                     sessions, status, lastError>>
      \/ ~ \E ws \in DOMAIN sockets :
             /\ ws # wsRef
             /\ \/ onopen(ws)
                \/ \E msg \in ConnFrames : onmessage(ws, msg)
    ]_vars

\* a superseded transport can still deliver frames while a call registered
\* on the current transport is pending
C9_Witness ==
  /\ \E ws \in DOMAIN sockets :
       /\ ws # wsRef
       /\ sockets[ws].readyState = "CLOSING"
       /\ ~sockets[ws].openPending
  /\ \E id \in DOMAIN pendingRef : pendingRef[id].ws = wsRef

(***************************************************************************)
(* Properties of the streaming assembler.                                  *)
(***************************************************************************)
\* the sessions of thread t, and no others, are on turn r
OnTurn(t, r) ==
  /\ \E i \in DOMAIN sessions : sessions[i].thread_id = t
  /\ \A i \in DOMAIN sessions :
       (sessions[i].thread_id = t) <=> (sessions[i].active_turn_id = Some(r))

TextDelta(t, r) ==
  [method |-> "item/progress", turn_id |-> r, thread_id |-> t]

\* the step leaves the sessions of thread t as they are
ThreadUnchanged(t) ==
  /\ Len(sessions') = Len(sessions)
  /\ \A i \in DOMAIN sessions :
       sessions[i].thread_id = t => sessions'[i] = sessions[i]

\* the step appends d to the streaming text of the last message of thread t,
\* which is a streaming message, and changes nothing else of that thread
Accumulates(t, d) ==
  /\ Len(sessions') = Len(sessions)
  /\ \A i \in DOMAIN sessions :
       sessions[i].thread_id = t =>
         LET old == sessions[i].messages
             n == Len(old)
         IN /\ n > 0
            /\ old[n].isStreaming
            /\ sessions'[i] =
                 [sessions[i] EXCEPT !.messages[n].streamingText = @ \o d]

\* C10: while thread t is on turn r, once a text delta for r has been applied
\* to t, (1) an item/created for another turn delivered next leaves the
\* messages of t, its accumulator included, as they are, and (2) the next
\* text delta for r, delivered directly or after one such item/created, is
\* appended to the end of that same accumulator.
C10_DeltasConcatenate ==
  [][ \A t \in ThreadIds : \A r \in TurnIds :
        (OnTurn(t, r) /\ stream # <<>>) =>
          /\ \A msg \in StreamFrames :
               ( /\ Len(stream) \in {1, 3}
                 /\ stream[Len(stream)] = TextDelta(t, r)
                 /\ msg.method = "item/created"
                 /\ msg.turn_id # r
                 /\ onmessage(wsRef, msg) ) => ThreadUnchanged(t)
          /\ \A msg \in StreamFrames :
               ( /\ \/ Len(stream) \in {1, 3} /\ stream[Len(stream)] = TextDelta(t, r)
                    \/ /\ Len(stream) = 2
                       /\ stream[1] = TextDelta(t, r)
                       /\ stream[2].turn_id # r
                 /\ msg.method = "item/progress"
                 /\ msg.turn_id = r
                 /\ msg.delta.type = "text"
                 /\ msg.delta.text # <<>>
                 /\ onmessage(wsRef, msg) ) => Accumulates(t, msg.delta.text)
    ]_vars

\* thread t1 on turn r1 has received the delta a, then thread t2 an item of
\* turn r2, then t1 the delta b: t1 holds one streaming message with text ab
C10_Witness ==
  /\ OnTurn("t1", "r1")
  /\ stream = <<TextDelta("t1", "r1"),
                [method |-> "item/created", turn_id |-> "r2", thread_id |-> "t2"],
                TextDelta("t1", "r1")>>
  /\ \E i \in DOMAIN sessions :
       /\ sessions[i].thread_id = "t1"
       /\ Len(sessions[i].messages) = 1
       /\ sessions[i].messages[1].isStreaming
       /\ sessions[i].messages[1].streamingText = <<"a", "b">>
  /\ \E i \in DOMAIN sessions :
       /\ sessions[i].thread_id = "t2"
       /\ \E k \in DOMAIN sessions[i].messages :
            sessions[i].messages[k].id = TurnMsgId("r2")

\* C11: once turn/started{r, t} has been processed and until the turn of t
\* ends or changes (the store has t on turn r), no text delta delivered for r
\* is dropped, whether or not the hook has re-rendered since.
C11_NoDeltaDropped ==
  \A t \in ThreadIds : \A r \in TurnIds :
    OnTurn(t, r) =>
      ~ ( /\ stream # <<>>
          /\ stream[Len(stream)] =
               [method |-> "item/progress", turn_id |-> r, thread_id |-> "none"] )

(***************************************************************************)
(* Properties of the item assembler.                                       *)
(***************************************************************************)
\* the rendered snapshot routes the events of turn r to thread t
Rendered(t, r) ==
  LET k == FindByTurn(sessionRef, r)
  IN k # 0 /\ sessionRef[k].thread_id = t

\* the positions of the messages of session s with id 'turn-r'
TurnMsgs(s, r) == {k \in DOMAIN s.messages : s.messages[k].id = TurnMsgId(r)}

\* C12: right after turn/completed or turn/error for thread t is processed,
\* session t has no active turn and no streaming message, and every message
\* that was streaming has a defined items list.
C12_TurnEndClears ==
  [][ \A t \in ThreadIds : \A msg \in ItemsFrames :
        ( /\ msg.method \in {"turn/completed", "turn/error"}
          /\ msg.thread_id = t
          /\ onmessage(wsRef, msg) ) =>
          \A i \in DOMAIN sessions :
            sessions[i].thread_id = t =>
              /\ sessions'[i].active_turn_id = None
              /\ Len(sessions'[i].messages) = Len(sessions[i].messages)
              /\ \A k \in DOMAIN sessions'[i].messages :
                   /\ ~sessions'[i].messages[k].isStreaming
                   /\ sessions[i].messages[k].isStreaming =>
                        sessions'[i].messages[k].items # None
    ]_vars

\* the turn of t1 has ended while a text placeholder was streaming: the
\* placeholder is still there, finalized, with an empty items list
C12_Witness ==
  \E i \in DOMAIN sessions :
    /\ sessions[i].thread_id = "t1"
    /\ sessions[i].active_turn_id = None
    /\ \E k \in DOMAIN sessions[i].messages :
         /\ sessions[i].messages[k].id.kind = "streaming"
         /\ ~sessions[i].messages[k].isStreaming
         /\ sessions[i].messages[k].items = Some(<<>>)

C14_CreatedDropsPlaceholder ==
  [][ \A t \in ThreadIds : \A msg \in ItemsFrames :
        ( /\ msg.method = "item/created"
          /\ OnTurn(t, msg.turn_id)
          /\ Rendered(t, msg.turn_id)
          /\ onmessage(wsRef, msg) ) =>
          \A i \in DOMAIN sessions :
            sessions[i].thread_id = t =>
              \A k \in DOMAIN sessions'[i].messages :
                ~sessions'[i].messages[k].isStreaming
    ]_vars

(***************************************************************************)
(* Properties of permission handling.                                      *)
(***************************************************************************)
\* C15: turn/permission_denied{t, D} sets hasPermissionDenial, replaces
\* permissionDenials with D, sets lastBlockedContent to the last user message
\* only when it was not set, and changes nothing else of session t and
\* nothing of any other session.
C15_DenialRecorded ==
  [][ \A msg \in PermissionFrames :
        ( /\ msg.kind = "notification"
          /\ wsRef # 0
          /\ onmessage(wsRef, msg) ) =>
          /\ Len(sessions') = Len(sessions)
          /\ \A i \in DOMAIN sessions :
               sessions'[i] =
                 IF sessions[i].thread_id = msg.thread_id
                 THEN [sessions[i] EXCEPT
                         !.hasPermissionDenial = Some(TRUE),
                         !.permissionDenials = Some(msg.denials),
                         !.lastBlockedContent =
                            IF @ # None THEN @
                            ELSE LastUserContent(sessions[i].messages)]
                 ELSE sessions[i]
    ]_vars

\* t1 has been denied with its blocked content and its message kept, t2 has
\* been denied without ever having had a user message
C15_Witness ==
  /\ \E i \in DOMAIN sessions :
       /\ sessions[i].thread_id = "t1"
       /\ sessions[i].hasPermissionDenial = Some(TRUE)
       /\ sessions[i].permissionDenials = Some(<<"Bash">>)
       /\ sessions[i].lastBlockedContent = Some("hi")
       /\ Len(sessions[i].messages) = 1
  /\ \E i \in DOMAIN sessions :
       /\ sessions[i].thread_id = "t2"
       /\ sessions[i].hasPermissionDenial = Some(TRUE)
       /\ sessions[i].lastBlockedContent = None

\* the calls of the operations `ops` for thread t that settle in this step
Gone(t, ops) ==
  {id \in DOMAIN pendingRef :
     /\ pendingRef[id].thread_id = t
     /\ pendingRef[id].op \in ops
     /\ id \notin DOMAIN pendingRef'}

\* the mode a call of approvePermission or changePermissionMode asks for
Requested(permission_mode) ==
  IF permission_mode = None THEN "acceptEdits" ELSE permission_mode[1]

ModeIs(t, mode) ==
  \A i \in DOMAIN sessions' :
    sessions'[i].thread_id = t => sessions'[i].permission_mode = mode

\* C16: when the approval/respond call of approvePermission or
\* changePermissionMode for thread t settles, by a result, an error, its
\* timeout, the close of the transport or because it could not be sent,
\* session t has the requested mode (that of the last call, when several
\* settle together).
C16_ModeSetWhateverTheOutcome ==
  [][ \A t \in ThreadIds :
        /\ LET gone == Gone(t, {"approvePermission", "changePermissionMode"})
           IN gone # {} =>
                LET last == CHOOSE id \in gone : \A j \in gone : j <= id
                IN ModeIs(t, Requested(pendingRef[last].permission_mode))
        /\ TransportNotOpen =>
             /\ \A m \in {None} \cup {Some(x) : x \in PermissionMode} :
                  approvePermission(t, m) => ModeIs(t, Requested(m))
             /\ \A x \in PermissionMode :
                  changePermissionMode(t, x) => ModeIs(t, x)
    ]_vars

\* an approvePermission without a mode was answered with an error, and one
\* could not be sent: t1 is on acceptEdits
C16_Witness ==
  /\ \E id \in DOMAIN lastSettled :
       /\ lastSettled[id].op = "approvePermission"
       /\ lastSettled[id].outcome \in {"error", "notsent"}
  /\ \E i \in DOMAIN sessions :
       /\ sessions[i].thread_id = "t1"
       /\ sessions[i].permission_mode = "acceptEdits"

\* C17: approvePermission (when its call settles) and dismissPermissionDenial
\* clear hasPermissionDenial and permissionDenials and leave
\* lastBlockedContent and messages as they are; changePermissionMode leaves
\* hasPermissionDenial, permissionDenials and lastBlockedContent as they are.
C17_ClearingKeepsBlockedContent ==
  [][ \A t \in ThreadIds :
        LET approves ==
              \/ Gone(t, {"approvePermission"}) # {}
              \/ /\ TransportNotOpen
                 /\ \E m \in {None} \cup {Some(x) : x \in PermissionMode} :
                      approvePermission(t, m)
            changes ==
              /\ Gone(t, {"approvePermission"}) = {}
              /\ \/ Gone(t, {"changePermissionMode"}) # {}
                 \/ /\ TransportNotOpen
                    /\ \E x \in PermissionMode : changePermissionMode(t, x)
        IN \A i \in DOMAIN sessions :
             sessions[i].thread_id = t =>
               /\ (approves \/ dismissPermissionDenial(t)) =>
                    /\ sessions'[i].hasPermissionDenial = Some(FALSE)
                    /\ sessions'[i].permissionDenials = None
                    /\ sessions'[i].lastBlockedContent = sessions[i].lastBlockedContent
                    /\ sessions'[i].messages = sessions[i].messages
               /\ changes =>
                    /\ sessions'[i].hasPermissionDenial = sessions[i].hasPermissionDenial
                    /\ sessions'[i].permissionDenials = sessions[i].permissionDenials
                    /\ sessions'[i].lastBlockedContent = sessions[i].lastBlockedContent
    ]_vars

\* an approvePermission has just settled: the denial of t1 is cleared, its
\* blocked content and its message are still there
C17_Witness ==
  /\ \E id \in DOMAIN lastSettled : lastSettled[id].op = "approvePermission"
  /\ \E i \in DOMAIN sessions :
       /\ sessions[i].thread_id = "t1"
       /\ sessions[i].hasPermissionDenial = Some(FALSE)
       /\ sessions[i].permissionDenials = None
       /\ sessions[i].lastBlockedContent = Some("again")
       /\ Len(sessions[i].messages) = 1

(***************************************************************************)
(* Properties of the session operations.                                   *)
(***************************************************************************)
\* C18: sendMessage(t, c) appends one user message with content c to session
\* t, sets lastBlockedContent to c and clears hasPermissionDenial and
\* permissionDenials in the step that issues turn/start, also when the
\* request cannot be sent; when the call settles, by a result, an error, its
\* timeout or the close of the transport, the store is left as it is.
C18_OptimisticAppendStays ==
  [][ /\ \A c \in SendContents :
           sendMessage("t1", c) =>
             /\ Len(sessions') = Len(sessions)
             /\ \A i \in DOMAIN sessions :
                  IF sessions[i].thread_id = "t1"
                  THEN LET old == sessions[i].messages
                           new == sessions'[i].messages
                       IN /\ Len(new) = Len(old) + 1
                          /\ SubSeq(new, 1, Len(old)) = old
                          /\ new[Len(new)].role = "user"
                          /\ new[Len(new)].content = c
                          /\ sessions'[i].lastBlockedContent = Some(c)
                          /\ sessions'[i].hasPermissionDenial = Some(FALSE)
                          /\ sessions'[i].permissionDenials = None
                          /\ sessions'[i].active_turn_id = sessions[i].active_turn_id
                  ELSE sessions'[i] = sessions[i]
      /\ Gone("t1", {"sendMessage"}) # {} => sessions' = sessions
    ]_vars

\* a turn/start has just been rejected (error, timeout, close, or never
\* sent): both messages the user sent on t1 are in the store, the second
\* one is the blocked content
C18_Witness ==
  /\ \E id \in DOMAIN lastSettled :
       /\ lastSettled[id].op = "sendMessage"
       /\ lastSettled[id].outcome # "resolved"
  /\ \E i \in DOMAIN sessions :
       /\ sessions[i].thread_id = "t1"
       /\ Len(sessions[i].messages) = 2
       /\ sessions[i].messages[1].content = "hi"
       /\ sessions[i].messages[2].content = "yo"
       /\ sessions[i].lastBlockedContent = Some("yo")

\* C19: a session enters the store exactly when a thread/start call of
\* createSession resolves: the step that answers the call with a result
\* appends one session with the returned thread_id, the cwd and the
\* permission mode of the request, no active turn and no message; a step
\* that rejects the call (error, timeout, close) or a createSession that
\* cannot be sent leaves the store as it is; no other step adds a session.
C19_InsertedIffResolved ==
  [][ LET gone == Gone("", {"createSession"})
          resolved == {id \in gone : AnsweredBy(id, "result")}
      IN /\ \A id \in resolved :
              /\ Len(sessions') = Len(sessions) + 1
              /\ SubSeq(sessions', 1, Len(sessions)) = sessions
              /\ LET s == sessions'[Len(sessions')]
                 IN /\ s.thread_id = "t1"
                    /\ s.cwd = pendingRef[id].cwd
                    /\ s.permission_mode = pendingRef[id].permission_mode[1]
                    /\ s.active_turn_id = None
                    /\ s.messages = <<>>
         /\ (gone # {} /\ resolved = {}) => sessions' = sessions
         /\ (TransportNotOpen /\ \E cwd \in Cwds : createSession(cwd, "default"))
              => sessions' = sessions
         /\ Len(sessions') > Len(sessions) => resolved # {}
    ]_vars

\* a thread/start has just been answered with a result and the store holds
\* the one new session
C19_Witness ==
  /\ \E id \in DOMAIN lastSettled :
       /\ lastSettled[id].op = "createSession"
       /\ lastSettled[id].outcome = "resolved"
  /\ Len(sessions) = 1
  /\ sessions[1].thread_id = "t1"
  /\ sessions[1].messages = <<>>
  /\ sessions[1].active_turn_id = None

\* the turn of session t has ended in this step: it had an active turn and
\* has none now
TurnLeft(t) ==
  \E i \in DOMAIN sessions :
    /\ sessions[i].thread_id = t
    /\ sessions[i].active_turn_id # None
    /\ i \in DOMAIN sessions'
    /\ sessions'[i].active_turn_id = None

\* C20: interruptTurn(t) changes nothing in the store, neither in the step
\* that issues turn/interrupt (sent or not) nor in the step where that call
\* settles (result, error, timeout, close); the active turn of a session
\* ends only in a step that handles turn/completed or turn/error for it.
C20_InterruptIsPassThrough ==
  [][ /\ interruptTurn("t2") => sessions' = sessions
      /\ Gone("t2", {"interruptTurn"}) # {} => sessions' = sessions
      /\ \A t \in ThreadIds :
           TurnLeft(t) =>
             /\ wsRef # 0
             /\ \E m \in {"turn/completed", "turn/error"} : \E r \in TurnIds :
                  onmessage(wsRef, Notification(m, t, r, NoDelta, NoItem, <<>>))
    ]_vars

\* a turn/interrupt has just been answered with a result: t2 is still on
\* turn r2 and still has the message of that turn
C20_Witness ==
  /\ \E id \in DOMAIN lastSettled :
       /\ lastSettled[id].op = "interruptTurn"
       /\ lastSettled[id].outcome = "resolved"
  /\ \E i \in DOMAIN sessions :
       /\ sessions[i].thread_id = "t2"
       /\ sessions[i].active_turn_id = Some("r2")
       /\ Len(sessions[i].messages) = 1

\* session t is in the store / has an active turn in the store
Present(S, t) == \E i \in DOMAIN S : S[i].thread_id = t
Active(S, t) ==
  \E i \in DOMAIN S : S[i].thread_id = t /\ S[i].active_turn_id # None

\* C21: deleteSession(t) on a session with an active turn issues one call
\* (turn/interrupt) and, when that call settles in whatever way or cannot be
\* sent, session t is gone; on a session without an active turn it issues no
\* call and session t is gone at once; no notification brings a session
\* back into the store.
C21_DeleteRemovesSession ==
  [][ \A t \in ThreadIds :
        /\ (deleteSession(t) /\ Active(sessions, t)) =>
              /\ Len(allocated') = Len(allocated) + 1
              /\ TransportNotOpen => ~Present(sessions', t)
        /\ (deleteSession(t) /\ ~Active(sessions, t)) =>
              /\ allocated' = allocated
              /\ ~Present(sessions', t)
        /\ Gone(t, {"deleteSession"}) # {} => ~Present(sessions', t)
        /\ (~Present(sessions, t) /\ wsRef # 0
              /\ \E msg \in DeleteFrames :
                   msg.kind = "notification" /\ onmessage(wsRef, msg))
              => ~Present(sessions', t)
    ]_vars

(***************************************************************************)
(* Properties of connect, disconnect and the close event.                  *)
(***************************************************************************)
\* C22: connect(u) changes nothing when the current transport targets u and
\* is connecting or open; otherwise the current transport, if any, is
\* closing or closed afterwards, a new transport for u in state CONNECTING
\* is the current one, status is "connecting" and lastError is cleared; the
\* pending table is the same in both cases.
C22_ConnectNoOpOrReplace ==
  [][ \A u \in Urls :
        connect(u) =>
          IF /\ wsRef # 0
             /\ sockets[wsRef].url = u
             /\ sockets[wsRef].readyState \in {"CONNECTING", "OPEN"}
          THEN /\ sockets' = sockets
               /\ wsRef' = wsRef
               /\ status' = status
               /\ lastError' = lastError
               /\ pendingRef' = pendingRef
          ELSE /\ Len(sockets') = Len(sockets) + 1
               /\ wsRef # 0 => sockets'[wsRef].readyState \in {"CLOSING", "CLOSED"}
               /\ \A w \in DOMAIN sockets : w # wsRef => sockets'[w] = sockets[w]
               /\ wsRef' = Len(sockets')
               /\ sockets'[wsRef'].url = u
               /\ sockets'[wsRef'].readyState = "CONNECTING"
               /\ status' = "connecting"
               /\ lastError' = NoError
               /\ pendingRef' = pendingRef
    ]_vars

\* a connection with a pending handshake was replaced by one to another
\* address: the old transport is closing, the new one is current and
\* connecting, no error is shown
C22_Witness ==
  /\ Len(sockets) = 2
  /\ wsRef = 2
  /\ sockets[1].readyState \in {"CLOSING", "CLOSED"}
  /\ sockets[2].readyState = "CONNECTING"
  /\ sockets[1].url # sockets[2].url
  /\ status = "connecting"
  /\ lastError = NoError
  /\ pendingRef # <<>>

\* C23: after the close event of a transport, status is "disconnected" for
\* code 1000 and "error" for every other code; lastError is the reported
\* reason when there is one, else the fixed default message for code 1006
\* and a message carrying the code for any other code.
C23_ClosePolicy ==
  [][ \A ws \in DOMAIN sockets : \A code \in CloseCodes :
        \A reason \in CloseReasons :
          onclose(ws, code, reason) =>
            IF code = 1000 THEN status' = "disconnected"
            ELSE /\ status' = "error"
                 /\ lastError' =
                      IF reason # "" THEN [msg |-> reason, detail |-> ""]
                      ELSE IF code = 1006
                      THEN [msg |-> "Connection failed", detail |-> ""]
                      ELSE [msg |-> "Closed with code", detail |-> CodeText(code)]
    ]_vars

\* the current transport was closed abnormally with a reason text
C23_Witness ==
  /\ wsRef = 0
  /\ \E ws \in DOMAIN sockets : sockets[ws].readyState = "CLOSED"
  /\ status = "error"
  /\ lastError = [msg |-> "bye", detail |-> ""]

\* C24: disconnect closes the current transport and empties the store, and
\* a session enters the store only by a call that was issued on the current
\* transport and is answered while that transport is open, never by a frame
\* of a transport that disconnect has closed.
C24_DisconnectClearsForGood ==
  [][ /\ disconnect =>
           /\ sessions' = <<>>
           /\ wsRef # 0 => sockets'[wsRef].readyState \in {"CLOSING", "CLOSED"}
      /\ Len(sessions') > Len(sessions) =>
           \E id \in Gone("", {"createSession"}) :
             /\ pendingRef[id].ws = wsRef
             /\ sockets[wsRef].readyState = "OPEN"
    ]_vars

(***************************************************************************)
(* Properties of a failing call.                                           *)
(***************************************************************************)
\* the call id fails in this step: an error response or its timeout
Fails(id) == AnsweredBy(id, "error") \/ callTimeout(id)

\* the failing call id rejects, alone: its record is removed, every other
\* record stays, the status stays
OnlyRejects(id) ==
  /\ DOMAIN pendingRef' = DOMAIN pendingRef \ {id}
  /\ \A j \in DOMAIN pendingRef' : pendingRef'[j] = pendingRef[j]
  /\ DOMAIN lastSettled' = {id}
  /\ lastSettled'[id].outcome \in {"error", "timeout"}
  /\ status' = status

\* C25 as stated: when a call other than the handshake is answered with an
\* error or times out, only its record is removed and only it rejects; the
\* other records, the session store and the status are unchanged.
C25_FailureChangesNothingElse ==
  [][ \A id \in DOMAIN pendingRef :
        (pendingRef[id].op # "connect" /\ Fails(id)) =>
           /\ OnlyRejects(id)
           /\ sessions' = sessions
    ]_vars

\* C25, amended: when a call other than the handshake is answered with an
\* error or times out, only its record is removed and only it rejects; the
\* other records and the status are unchanged; the store is unchanged but
\* for the update that the operation awaiting the call applies whatever the
\* outcome: approvePermission and changePermissionMode set the mode of their
\* session (approvePermission also clears its denial), deleteSession removes
\* its session.
C25_FailureIsLocal ==
  [][ \A id \in DOMAIN pendingRef :
        (pendingRef[id].op # "connect" /\ Fails(id)) =>
           LET rec == pendingRef[id]
           IN /\ OnlyRejects(id)
              /\ sessions' =
                   CASE rec.op = "approvePermission" ->
                          [i \in DOMAIN sessions |->
                             IF sessions[i].thread_id = rec.thread_id
                             THEN ApproveUpdate(sessions[i], rec.permission_mode)
                             ELSE sessions[i]]
                     [] rec.op = "changePermissionMode" ->
                          [i \in DOMAIN sessions |->
                             IF sessions[i].thread_id = rec.thread_id
                             THEN ModeUpdate(sessions[i], rec.permission_mode[1])
                             ELSE sessions[i]]
                     [] rec.op = "deleteSession" ->
                          RemoveSession(sessions, rec.thread_id)
                     [] OTHER -> sessions
    ]_vars

\* a turn/start has just failed while another call stays pending
C25_Witness ==
  /\ \E id \in DOMAIN lastSettled :
       /\ lastSettled[id].op = "sendMessage"
       /\ lastSettled[id].outcome \in {"error", "timeout"}
  /\ pendingRef # <<>>

(***************************************************************************)
(* Properties of the session store.                                        *)
(***************************************************************************)
\* C26: no two sessions of the store have the same thread_id.
C26_ThreadIdsUnique ==
  \A i, j \in DOMAIN sessions :
    sessions[i].thread_id = sessions[j].thread_id => i = j

\* the thread_ids of the sessions of the store, in order
ThreadIdsOf(S) == [i \in DOMAIN S |-> S[i].thread_id]

\* C27: a notification of any kind, for known or unknown thread_id and
\* turn_id, leaves the sessions of the store the same sessions; a session is
\* added only in the step where a thread/start call of createSession is
\* answered with a result, and one is removed only by disconnect or by
\* deleteSession (at once, or when its turn/interrupt call has settled).
C27_OnlyOperationsChangeTheSet ==
  [][ /\ \A msg \in StoreFrames :
           (msg.kind = "notification" /\ wsRef # 0 /\ onmessage(wsRef, msg)) =>
              ThreadIdsOf(sessions') = ThreadIdsOf(sessions)
      /\ Len(sessions') > Len(sessions) =>
           \E id \in Gone("", {"createSession"}) :
             /\ wsRef # 0
             /\ onmessage(wsRef, Response(id, "result", "t3"))
      /\ Len(sessions') < Len(sessions) =>
           \/ disconnect
           \/ \E t \in ThreadIds :
                deleteSession(t) \/ Gone(t, {"deleteSession"}) # {}
      /\ Len(sessions') = Len(sessions) =>
           ThreadIdsOf(sessions') = ThreadIdsOf(sessions)
    ]_vars

\* the store has lost t2 and gained t3, and a notification for t1 has been
\* applied since
C27_Witness ==
  /\ ThreadIdsOf(sessions) = <<"t1", "t3">>
  /\ sessions[1].active_turn_id = Some("r1")

(***************************************************************************)
(* Properties of the message list of a session.                            *)
(***************************************************************************)
IsUser(m) == m.role = "user"
IsSettled(m) == ~m.isStreaming
IdOf(msgs) == [i \in DOMAIN msgs |-> msgs[i].id]

\* a is b with some elements left out
RECURSIVE IsSubseq(_, _)
IsSubseq(a, b) ==
  IF a = <<>> THEN TRUE
  ELSE IF b = <<>> THEN FALSE
  ELSE IF a[1] = b[1] THEN IsSubseq(Tail(a), Tail(b))
  ELSE IsSubseq(a, Tail(b))

\* C28: in a session that stays in the store, every step keeps the user
\* messages as they are and in their order, adding new ones only at the end
\* of the list, and keeps every message that is not streaming at that moment
\* (by id, in order): only messages with isStreaming true are ever removed.
C28_OnlyPlaceholdersRemoved ==
  [][ Len(sessions') = Len(sessions) =>
        \A i \in DOMAIN sessions :
          LET old == sessions[i].messages
              new == sessions'[i].messages
              uo == SelectSeq(old, IsUser)
              un == SelectSeq(new, IsUser)
          IN /\ Len(un) >= Len(uo)
             /\ SubSeq(un, 1, Len(uo)) = uo
             /\ Len(un) > Len(uo) => new = Append(old, un[Len(un)])
             /\ IsSubseq(IdOf(SelectSeq(old, IsSettled)), IdOf(new))
    ]_vars

\* a text item has replaced the streaming placeholder of t2 while the user
\* message sent after the placeholder and the streamed message of the
\* earlier round are still there
C28_Witness ==
  \E i \in DOMAIN sessions :
    /\ sessions[i].thread_id = "t2"
    /\ Len(sessions[i].messages) = 3
    /\ sessions[i].messages[1].id.kind = "streaming"
    /\ sessions[i].messages[2].role = "user"
    /\ sessions[i].messages[3].id.kind = "turn"
    /\ stream # <<>>

\* C29: a text delta for turn r changes or adds only a message with the id
\* streaming-r.
C29_DeltaGoesToItsOwnTurn ==
  [][ \A msg \in TurnsFrames :
        (msg.method = "item/progress" /\ onmessage(wsRef, msg)) =>
          \A i \in DOMAIN sessions :
            LET old == sessions[i].messages
                new == sessions'[i].messages
            IN \A k \in DOMAIN new :
                 (k \notin DOMAIN old \/ new[k] # old[k]) =>
                    new[k].id = [kind |-> "streaming", turn |-> msg.turn_id, ts |-> 0]
    ]_vars

\* C30: an item/progress or item/created event for a turn that no session
\* of the store is on when the event is processed changes no session.
C30_RoutedByCurrentTurn ==
  [][ \A msg \in ItemsFrames :
        ( /\ msg.method \in {"item/progress", "item/created"}
          /\ onmessage(wsRef, msg)
          /\ \A i \in DOMAIN sessions :
                sessions[i].active_turn_id # Some(msg.turn_id) )
        => sessions' = sessions
    ]_vars

\* what identifies a message and what streaming has put into it
Streamed(msgs) ==
  [i \in DOMAIN msgs |-> [id |-> msgs[i].id, streamingText |-> msgs[i].streamingText]]

\* C31: in a session that stays in the store, a message that is not
\* streaming stays in the list, not streaming, with the streamingText it
\* has: no step sets isStreaming of a message back to true, and no delta is
\* appended to a message that turn/completed or turn/error has finalized.
C31_FinalizedStaysFinalized ==
  [][ Len(sessions') = Len(sessions) =>
        \A i \in DOMAIN sessions :
          IsSubseq(Streamed(SelectSeq(sessions[i].messages, IsSettled)),
                   Streamed(SelectSeq(sessions'[i].messages, IsSettled)))
    ]_vars

\* the message streamed in the first round of r2 was finalized with its text
\* and the delta that came afterwards opened a new streaming message
C31_Witness ==
  \E i \in DOMAIN sessions :
    /\ sessions[i].thread_id = "t2"
    /\ Len(sessions[i].messages) = 2
    /\ sessions[i].messages[1].id.kind = "streaming"
    /\ ~sessions[i].messages[1].isStreaming
    /\ sessions[i].messages[1].streamingText = <<"a">>
    /\ sessions[i].messages[2].isStreaming
    /\ sessions[i].messages[2].streamingText = <<"a">>

(***************************************************************************)
(* Properties of the timers.                                               *)
(***************************************************************************)
\* the delay a timer of each kind is armed with
TimeoutOf(kind) == IF kind = "init" THEN INIT_TIMEOUT_MS ELSE CALL_TIMEOUT_MS

\* C32: the timer armed for the handshake has a longer delay than the timer
\* armed for any other call.
C32_HandshakeTimeoutIsLonger ==
  \A i, j \in DOMAIN timers :
    (timers[i] = "init" /\ timers[j] = "call") =>
       TimeoutOf(timers[i]) > TimeoutOf(timers[j])

(***************************************************************************)
(* Properties of the connection status.                                    *)
(***************************************************************************)
\* C33: while status is "connected", status and lastError change only in a
\* step that is connect, disconnect or the close event of the current
\* transport.
C33_OnlyOwnEventsChangeStatus ==
  [][ (status = "connected" /\ <<status, lastError>>' # <<status, lastError>>) =>
        \/ \E u \in Urls : connect(u)
        \/ disconnect
        \/ ClosedCurrent
    ]_vars

(***************************************************************************)
(* Properties of the end of a turn.                                        *)
(***************************************************************************)
\* a turn/completed frame is handled in this step
TurnEnds(msg) ==
  /\ msg.method \in {"turn/completed", "turn/error"}
  /\ onmessage(wsRef, msg)

\* C34 as stated: turn/completed or turn/error for a turn other than the
\* one a session is on leaves the active turn of that session as it is.
C34_EndOfOtherTurnKeepsTurn ==
  [][ \A msg \in TurnsFrames :
        TurnEnds(msg) =>
          \A i \in DOMAIN sessions :
            sessions[i].active_turn_id \notin {None, Some(msg.turn_id)} =>
               sessions'[i].active_turn_id = sessions[i].active_turn_id
    ]_vars

\* C34, amended: turn/completed or turn/error clears the active turn of the
\* session its thread_id names, whatever turn_id it carries and whatever
\* turn that session is on, and leaves the active turn of every other
\* session as it is.
C34_EndClearsByThread ==
  [][ \A msg \in TurnsFrames :
        TurnEnds(msg) =>
          \A i \in DOMAIN sessions :
            sessions'[i].active_turn_id =
              IF sessions[i].thread_id = msg.thread_id THEN None
              ELSE sessions[i].active_turn_id
    ]_vars

\* t1 has streamed two deltas and its turn has been ended: no turn is
\* active on it and its message is finalized; t2 is still on r2
C34_Witness ==
  /\ \E i \in DOMAIN sessions :
       /\ sessions[i].thread_id = "t1"
       /\ sessions[i].active_turn_id = None
       /\ Len(sessions[i].messages) = 1
       /\ sessions[i].messages[1].streamingText = <<"a", "a">>
       /\ ~sessions[i].messages[1].isStreaming
  /\ \E i \in DOMAIN sessions :
       /\ sessions[i].thread_id = "t2"
       /\ sessions[i].active_turn_id = Some("r2")

(***************************************************************************)
(* Invariants of the sessions.                                             *)
(***************************************************************************)
\* C35: no two messages of one session have the same id.
C35_MessageIdsUnique ==
  \A i \in DOMAIN sessions :
    \A j, k \in DOMAIN sessions[i].messages :
      sessions[i].messages[j].id = sessions[i].messages[k].id => j = k

(***************************************************************************)
(* Termination of calls.  A timer armed by setTimeout runs its callback    *)
(* unless clearTimeout removes it first, so each timeout action is weakly  *)
(* fair; nothing is assumed of the server or of the transports.  The       *)
(* server answers with results, transports close abnormally, and connect   *)
(* may replace a transport that still has records pending.                 *)
(***************************************************************************)
TimersFire ==
  \A id \in 1..MaxId : WF_vars(initTimeout(id)) /\ WF_vars(callTimeout(id))

SettleFrames == {Response(id, "result", "t1") : id \in 1..MaxId}

NextSettle ==
  \/ \E u \in Urls : connect(u)
  \/ \E ws \in DOMAIN sockets : onopen(ws)
  \/ \E ws \in DOMAIN sockets : \E msg \in SettleFrames : onmessage(ws, msg)
  \/ \E ws \in DOMAIN sockets : onclose(ws, CLOSE_ABNORMAL, "")
  \/ \E id \in DOMAIN timers : initTimeout(id)
  \/ \E id \in DOMAIN timers : callTimeout(id)
  \/ \E cwd \in Cwds : createSession(cwd, "default")

SpecSettle == Init /\ [][NextSettle]_vars /\ TimersFire

\* C36: every record placed in the pending table, by call or by the
\* handshake, is eventually removed from it, and from some point on the
\* pending table stays empty.
C36_EveryCallSettles ==
  /\ \A id \in 1..MaxId :
       (id \in DOMAIN pendingRef) ~> (id \notin DOMAIN pendingRef)
  /\ <>[](pendingRef = <<>>)

\* a call and a handshake were both pending, the timer of one of them has run
\* and settled it, and the pending table is empty again
C36_Witness ==
  /\ Len(allocated) = MaxId
  /\ pendingRef = <<>>
  /\ \E id \in DOMAIN lastSettled : lastSettled[id].outcome = "timeout"
  /\ \A id \in DOMAIN settles : settles[id] = 1

(***************************************************************************)
(* Progress of the connection.  A transport that has reported nothing yet  *)
(* eventually reports its first event, open or close; a transport that has *)
(* opened may stay open for ever, and the server may never answer.          *)
(***************************************************************************)
FirstEvent(ws) ==
  /\ ws \in DOMAIN sockets
  /\ sockets[ws].openPending
  /\ \/ onopen(ws)
     \/ \E code \in CloseCodes : \E reason \in CloseReasons :
          onclose(ws, code, reason)

TransportsReport == \A ws \in 1..MaxSockets : WF_vars(FirstEvent(ws))

SpecConnecting ==
  Init /\ [][NextClose]_vars /\ TimersFire /\ TransportsReport

\* C37: whenever the status is 'connecting' it later becomes 'connected',
\* 'error' or 'disconnected'.
C37_ConnectingEnds ==
  (status = "connecting") ~> (status \in {"connected", "error", "disconnected"})

\* the transport opened, the server never answered the handshake, and the
\* handshake timer took the status from 'connecting' to 'error'
C37_Witness ==
  /\ status = "error"
  /\ lastError.msg = "Initialize timed out"
  /\ wsRef # 0 /\ sockets[wsRef].readyState = "OPEN"
  /\ \E id \in DOMAIN lastSettled :
       lastSettled[id].op = "connect" /\ lastSettled[id].outcome = "timeout"

(***************************************************************************)
(* Sessions after the transport has gone.                                  *)
(***************************************************************************)
\* C38: once the transport of the connection has closed, no session has an
\* active turn and no message of any session is marked as streaming.
C38_NoActiveSessionAfterClose ==
  (wsRef = 0 \/ sockets[wsRef].readyState = "CLOSED") =>
    \A i \in DOMAIN sessions :
      /\ sessions[i].active_turn_id = None
      /\ \A k \in DOMAIN sessions[i].messages :
           ~sessions[i].messages[k].isStreaming

(***************************************************************************)
(* The denial flag and the denial list, on an established connection from  *)
(* the initial state of the streaming assembler.  The user sends on t1,    *)
(* approves and dismisses; the server answers the calls and reports        *)
(* denials, for t1, for t2 and for a thread the store does not hold, with  *)
(* an empty and a non-empty list; calls time out.                          *)
(***************************************************************************)
DenialsFrames ==
  {Response(id, body, "t1") : id \in 4..(3 + MaxId), body \in {"result", "error"}}
  \cup {Notification("turn/permission_denied", t, "", NoDelta, NoItem, d) :
          t \in {"t1", "t2", "t9"}, d \in {<<>>, <<"Bash">>}}

NextDenials ==
  \/ \E c \in Contents : sendMessage("t1", c)
  \/ approvePermission("t1", None)
  \/ \E t \in ThreadIds : dismissPermissionDenial(t)
  \/ \E ws \in DOMAIN sockets : \E msg \in DenialsFrames : onmessage(ws, msg)
  \/ \E id \in DOMAIN timers : callTimeout(id)

SpecDenials == InitStream /\ [][NextDenials]_vars

\* C39: in every session hasPermissionDenial is true exactly when
\* permissionDenials is defined.
C39_FlagAgreesWithList ==
  \A i \in DOMAIN sessions :
    (sessions[i].hasPermissionDenial = Some(TRUE))
      <=> (sessions[i].permissionDenials # None)

\* t1 was denied after a send had cleared its flags, while t2 was denied and
\* then dismissed
C39_Witness ==
  /\ Len(sessions) = 2
  /\ sessions[1].messages # <<>>
  /\ sessions[1].hasPermissionDenial = Some(TRUE)
  /\ sessions[1].permissionDenials = Some(<<"Bash">>)
  /\ sessions[2].hasPermissionDenial = Some(FALSE)
  /\ sessions[2].permissionDenials = None

====
